---------------------------- MODULE Spec2Model ----------------------------
(***************************************************************************)
(* A model of the OpenElections gap-fill pipeline of                       *)
(* src/ingest_openelections.py: the race classifier, the district          *)
(* resolver, the candidate aggregator and the merge engine (main).         *)
(*                                                                         *)
(* Text is modelled as a sequence of one-character strings, so that        *)
(* Python's substring test, upper(), strip() and the regular expressions   *)
(* of normalize_race_name are computed character by character.             *)
(***************************************************************************)
EXTENDS Integers, Sequences, FiniteSets, TLC

(***************************************************************************)
(* Python str primitives                                                   *)
(***************************************************************************)

\* str.upper() on one character: the 26 ASCII letters, every other character
\* is left alone.
UpperMap ==
    ("a" :> "A") @@ ("b" :> "B") @@ ("c" :> "C") @@ ("d" :> "D") @@ ("e" :> "E") @@
    ("f" :> "F") @@ ("g" :> "G") @@ ("h" :> "H") @@ ("i" :> "I") @@ ("j" :> "J") @@
    ("k" :> "K") @@ ("l" :> "L") @@ ("m" :> "M") @@ ("n" :> "N") @@ ("o" :> "O") @@
    ("p" :> "P") @@ ("q" :> "Q") @@ ("r" :> "R") @@ ("s" :> "S") @@ ("t" :> "T") @@
    ("u" :> "U") @@ ("v" :> "V") @@ ("w" :> "W") @@ ("x" :> "X") @@ ("y" :> "Y") @@
    ("z" :> "Z")

LowerLetters == DOMAIN UpperMap

UpperLetters == {UpperMap[c] : c \in LowerLetters}

Digits == {"0", "1", "2", "3", "4", "5", "6", "7", "8", "9"}

\* the characters the re module's \s matches (those the model's texts can hold)
WhiteSpace == {" ", "\t"}

\* the characters the re module's \w matches
WordChars == LowerLetters \cup UpperLetters \cup Digits \cup {"_"}

\* text.upper()
Upper(t) == [i \in 1..Len(t) |-> IF t[i] \in LowerLetters THEN UpperMap[t[i]] ELSE t[i]]

RECURSIVE LStrip(_)
\* text.lstrip()
LStrip(t) == IF t # <<>> /\ Head(t) \in WhiteSpace THEN LStrip(Tail(t)) ELSE t

RECURSIVE RStrip(_)
\* text.rstrip()
RStrip(t) ==
    IF t # <<>> /\ t[Len(t)] \in WhiteSpace THEN RStrip(SubSeq(t, 1, Len(t) - 1)) ELSE t

\* text.strip()
Strip(t) == RStrip(LStrip(t))

\* key in text: Python's substring test
Contains(t, k) ==
    \/ k = <<>>
    \/ \E i \in 1..(Len(t) - Len(k) + 1) :
          t[i] = k[1] /\ SubSeq(t, i, i + Len(k) - 1) = k

\* key occurs in text at position p
OccursAt(text, p, key) ==
    p + Len(key) - 1 <= Len(text) /\ SubSeq(text, p, p + Len(key) - 1) = key

\* any(k in text for k in keys)
AnyIn(t, keys) == \E k \in keys : Contains(t, k)

\* text.startswith(p)
StartsWith(t, p) == Len(p) <= Len(t) /\ SubSeq(t, 1, Len(p)) = p

\* text.endswith(s)
EndsWith(t, s) == Len(s) <= Len(t) /\ SubSeq(t, Len(t) - Len(s) + 1, Len(t)) = s

\* text.replace(a, b) for a single character a
ReplaceChar(t, a, b) == [i \in 1..Len(t) |-> IF t[i] = a THEN b ELSE t[i]]

(***************************************************************************)
(* The regular expressions of normalize_race_name.  A pattern is a         *)
(* sequence of items: a character set taken once, optionally, zero or     *)
(* more times, or one or more times; a literal text; the word boundary; or *)
(* the end of the string.  Quantifiers are greedy and backtrack, as in     *)
(* Python's re.                                                            *)
(***************************************************************************)
One(c)   == [kind |-> "set", s |-> {c}, lo |-> 1, many |-> FALSE, str |-> <<>>]
Opt(c)   == [kind |-> "set", s |-> {c}, lo |-> 0, many |-> FALSE, str |-> <<>>]
Star(cs) == [kind |-> "set", s |-> cs, lo |-> 0, many |-> TRUE, str |-> <<>>]
Plus(cs) == [kind |-> "set", s |-> cs, lo |-> 1, many |-> TRUE, str |-> <<>>]
WordB    == [kind |-> "wb", s |-> {}, lo |-> 0, many |-> FALSE, str |-> <<>>]
EndS     == [kind |-> "eos", s |-> {}, lo |-> 0, many |-> FALSE, str |-> <<>>]

\* a literal text, as a pattern of one item
Lit(str) == <<[kind |-> "lit", s |-> {}, lo |-> 0, many |-> FALSE, str |-> str]>>

IsWordAt(t, pos) == pos >= 1 /\ pos <= Len(t) /\ t[pos] \in WordChars

\* \b holds between positions pos-1 and pos
IsBoundary(t, pos) == IsWordAt(t, pos - 1) # IsWordAt(t, pos)

RECURSIVE RunLen(_, _, _)
\* the number of consecutive characters of t from pos on that lie in cs
RunLen(t, pos, cs) ==
    IF pos <= Len(t) /\ t[pos] \in cs THEN 1 + RunLen(t, pos + 1, cs) ELSE 0

NoMatch == [ok |-> FALSE, ends |-> <<>>]

\* an item that ends before position e, followed by the match r of the items
\* after it
Followed(e, r) == IF r.ok THEN [ok |-> TRUE, ends |-> <<e>> \o r.ends] ELSE NoMatch

\* the most characters a set item takes at pos
Most(it, t, pos) ==
    IF it.many THEN RunLen(t, pos, it.s)
    ELSE IF pos <= Len(t) /\ t[pos] \in it.s THEN 1 ELSE 0

RECURSIVE MatchFrom(_, _, _, _)
RECURSIVE TryCount(_, _, _, _, _)
\* Match items k.. of a pattern against t from position pos.  On success, ends
\* holds the position after each of the items k.. (so the last one is the
\* position after the match).
MatchFrom(items, k, t, pos) ==
    IF k > Len(items) THEN [ok |-> TRUE, ends |-> <<>>]
    ELSE IF items[k].kind = "set"
    THEN TryCount(items, k, t, pos, Most(items[k], t, pos))
    ELSE IF items[k].kind = "lit"
    THEN IF OccursAt(t, pos, items[k].str)
         THEN Followed(pos + Len(items[k].str),
                       MatchFrom(items, k + 1, t, pos + Len(items[k].str)))
         ELSE NoMatch
    ELSE IF \/ items[k].kind = "wb" /\ IsBoundary(t, pos)
            \/ items[k].kind = "eos" /\ pos = Len(t) + 1
    THEN Followed(pos, MatchFrom(items, k + 1, t, pos))
    ELSE NoMatch

\* item k takes n characters, then n-1, ... down to its minimum
TryCount(items, k, t, pos, n) ==
    IF n < items[k].lo THEN NoMatch
    ELSE LET r == MatchFrom(items, k + 1, t, pos + n)
         IN  IF r.ok THEN [ok |-> TRUE, ends |-> <<pos + n>> \o r.ends]
             ELSE TryCount(items, k, t, pos, n - 1)

\* the text of group item grp of a match with the item ends ends (grp = 0: no
\* group)
GroupText(t, ends, grp) ==
    IF grp = 0 THEN <<>> ELSE SubSeq(t, ends[grp - 1], ends[grp] - 1)

\* the positions from pos on where the pattern matches; an empty match
\* replaces nothing
MatchStarts(items, t, pos) ==
    {p \in pos..Len(t) :
        MatchFrom(items, 1, t, p).ok /\ MatchFrom(items, 1, t, p).ends[Len(items)] > p}

RECURSIVE SubFrom(_, _, _, _, _)
RECURSIVE SubNext(_, _, _, _, _, _)
RECURSIVE SubAt(_, _, _, _, _)
\* re.sub(pattern, repl, t) from position pos on: the leftmost match is replaced
\* by repl followed by the text of group item grp, and the scan goes on after
\* the match.
SubFrom(items, repl, grp, t, pos) ==
    SubNext(items, repl, grp, t, pos, MatchStarts(items, t, pos))

\* starts are the positions from pos on where the pattern matches
SubNext(items, repl, grp, t, pos, starts) ==
    IF starts = {} THEN SubSeq(t, pos, Len(t))
    ELSE SubSeq(t, pos, (CHOOSE p \in starts : \A q \in starts : p <= q) - 1)
         \o SubAt(items, repl, grp, t,
                  MatchFrom(items, 1, t, CHOOSE p \in starts : \A q \in starts : p <= q).ends)

\* the replacement of a match with the item ends ends, and the scan after it
SubAt(items, repl, grp, t, ends) ==
    repl \o GroupText(t, ends, grp) \o SubFrom(items, repl, grp, t, ends[Len(items)])

ReSub(items, repl, grp, t) == SubFrom(items, repl, grp, t, 1)

(***************************************************************************)
(* MANUAL_CTDS_MAP: name fragment -> CTDS, in the dict's insertion order   *)
(***************************************************************************)
MANUAL_CTDS_MAP == <<
    <<<<"S","T","."," ","J","O","H","N","S"," ","U","N","I","F","I","E","D">>, 4153>>,
    <<<<"S","T"," ","J","O","H","N","S"," ","U","N","I","F","I","E","D">>, 4153>>,
    <<<<"S","T","."," ","J","O","H","N"," ","U","S","D">>, 4153>>,
    <<<<"W","I","N","D","O","W"," ","R","O","C","K"," ","U","N","I","F","I","E","D">>, 4154>>,
    <<<<"W","I","N","D","O","W"," ","R","O","C","K"," ","U","S","D">>, 4154>>,
    <<<<"R","O","U","N","D"," ","V","A","L","L","E","Y"," ","U","N","I","F","I","E","D">>, 4155>>,
    <<<<"R","O","U","N","D"," ","V","A","L","L","E","Y"," ","U","S","D">>, 4155>>,
    <<<<"S","A","N","D","E","R","S"," ","U","N","I","F","I","E","D">>, 4156>>,
    <<<<"S","A","N","D","E","R","S"," ","U","S","D">>, 4156>>,
    <<<<"G","A","N","A","D","O"," ","U","N","I","F","I","E","D">>, 4157>>,
    <<<<"G","A","N","A","D","O"," ","U","S","D">>, 4157>>,
    <<<<"R","E","D"," ","M","E","S","A"," ","U","N","I","F","I","E","D">>, 4159>>,
    <<<<"R","E","D"," ","M","E","S","A"," ","U","S","D">>, 4159>>,
    <<<<"C","O","N","C","H","O"," ","E","L","E","M","E","N","T","A","R","Y">>, 4160>>,
    <<<<"C","O","N","C","H","O"," ","E","S","D">>, 4160>>,
    <<<<"A","L","P","I","N","E"," ","E","L","E","M","E","N","T","A","R","Y">>, 4161>>,
    <<<<"V","E","R","N","O","N"," ","E","L","E","M","E","N","T","A","R","Y">>, 4162>>,
    <<<<"V","E","R","N","O","N"," ","E","S","D">>, 4162>>,
    <<<<"M","C","N","A","R","Y"," ","E","L","E","M","E","N","T","A","R","Y">>, 4163>>,
    <<<<"M","C"," ","N","A","R","Y"," ","E","L","E","M","E","N","T","A","R","Y">>, 4163>>,
    <<<<"M","C","N","A","R","Y"," ","E","S","D">>, 4163>>,
    <<<<"C","H","I","N","L","E"," ","U","N","I","F","I","E","D">>, 4158>>,
    <<<<"T","O","M","B","S","T","O","N","E"," ","U","N","I","F","I","E","D">>, 4168>>,
    <<<<"U","S","D"," ","6","8">>, 4168>>,
    <<<<"B","I","S","B","E","E"," ","U","N","I","F","I","E","D">>, 4169>>,
    <<<<"B","I","S","B","E","E"," ","U","S","D">>, 4169>>,
    <<<<"W","I","L","L","C","O","X"," ","U","N","I","F","I","E","D">>, 4170>>,
    <<<<"W","I","L","L","C","O","X"," ","U","S","D">>, 4170>>,
    <<<<"S","A","N"," ","S","I","M","O","N"," ","U","N","I","F","I","E","D">>, 4172>>,
    <<<<"S","A","N"," ","S","I","M","O","N"," ","U","S","D">>, 4172>>,
    <<<<"S","T","."," ","D","A","V","I","D"," ","U","N","I","F","I","E","D">>, 4173>>,
    <<<<"S","T"," ","D","A","V","I","D"," ","U","N","I","F","I","E","D">>, 4173>>,
    <<<<"S","T","."," ","D","A","V","I","D"," ","U","S","D">>, 4173>>,
    <<<<"D","O","U","G","L","A","S"," ","U","N","I","F","I","E","D">>, 4174>>,
    <<<<"D","O","U","G","L","A","S"," ","U","S","D">>, 4174>>,
    <<<<"S","I","E","R","R","A"," ","V","I","S","T","A"," ","U","N","I","F","I","E","D">>, 4175>>,
    <<<<"S","I","E","R","R","A"," ","V","I","S","T","A"," ","U","S","D">>, 4175>>,
    <<<<"A","P","A","C","H","E"," ","E","L","E","M","E","N","T","A","R","Y">>, 4178>>,
    <<<<"P","E","A","R","C","E"," ","E","L","E","M","E","N","T","A","R","Y">>, 4186>>,
    <<<<"B","E","N","S","O","N"," ","U","N","I","F","I","E","D">>, 79226>>,
    <<<<"B","E","N","S","O","N"," ","U","S","D">>, 79226>>,
    <<<<"F","L","A","G","S","T","A","F","F"," ","U","N","I","F","I","E","D">>, 4192>>,
    <<<<"F","L","A","G","S","T","A","F","F"," ","U","S","D">>, 4192>>,
    <<<<"P","A","G","E"," ","U","N","I","F","I","E","D">>, 4196>>,
    <<<<"P","A","G","E"," ","U","S","D">>, 4196>>,
    <<<<"T","U","B","A"," ","C","I","T","Y"," ","U","N","I","F","I","E","D">>, 4197>>,
    <<<<"T","U","B","A"," ","C","I","T","Y"," ","U","S","D">>, 4197>>,
    <<<<"S","E","D","O","N","A","-","O","A","K"," ","C","R","E","E","K">>, 4467>>,
    <<<<"S","E","D","O","N","A"," ","O","A","K"," ","C","R","E","E","K">>, 4467>>,
    <<<<"W","I","L","L","I","A","M","S"," ","U","N","I","F","I","E","D">>, 4193>>,
    <<<<"G","R","A","N","D"," ","C","A","N","Y","O","N"," ","U","N","I","F","I","E","D">>, 4194>>,
    <<<<"F","R","E","D","O","N","I","A","-","M","O","C","C","A","S","I","N"," ","U","N","I","F","I","E","D">>, 4195>>,
    <<<<"G","L","O","B","E"," ","U","N","I","F","I","E","D">>, 4208>>,
    <<<<"P","A","Y","S","O","N"," ","U","N","I","F","I","E","D">>, 4209>>,
    <<<<"S","A","N"," ","C","A","R","L","O","S"," ","U","N","I","F","I","E","D">>, 4210>>,
    <<<<"H","A","Y","D","E","N","-","W","I","N","K","E","L","M","A","N"," ","U","N","I","F","I","E","D">>, 4212>>,
    <<<<"H","A","Y","D","E","N"," ","W","I","N","K","E","L","M","A","N"," ","U","N","I","F","I","E","D">>, 4212>>,
    <<<<"Y","O","U","N","G"," ","E","L","E","M","E","N","T","A","R","Y">>, 4213>>,
    <<<<"Y","O","U","N","G"," ","P","U","B","L","I","C"," ","S","C","H","O","O","L">>, 4213>>,
    <<<<"P","I","N","E","-","S","T","R","A","W","B","E","R","R","Y">>, 4214>>,
    <<<<"P","I","N","E"," ","S","T","R","A","W","B","E","R","R","Y">>, 4214>>,
    <<<<"T","O","N","T","O"," ","B","A","S","I","N">>, 4215>>,
    <<<<"W","H","I","T","E","R","I","V","E","R"," ","U","N","I","F","I","E","D">>, 4394>>,
    <<<<"W","H","I","T","E","R","I","V","E","R"," ","U","S","D">>, 4394>>,
    <<<<"M","I","A","M","I"," ","U","N","I","F","I","E","D">>, 4211>>,
    <<<<"S","A","N"," ","C","A","R","L","O","S"," ","S","C","H","O","O","L">>, 4210>>,
    <<<<"S","A","F","F","O","R","D"," ","U","N","I","F","I","E","D">>, 4218>>,
    <<<<"S","A","F","F","O","R","D"," ","U","S","D">>, 4218>>,
    <<<<"T","H","A","T","C","H","E","R"," ","U","N","I","F","I","E","D">>, 4219>>,
    <<<<"T","H","A","T","C","H","E","R"," ","U","S","D">>, 4219>>,
    <<<<"P","I","M","A"," ","U","N","I","F","I","E","D">>, 4220>>,
    <<<<"P","I","M","A"," ","U","S","D">>, 4220>>,
    <<<<"F","O","R","T"," ","T","H","O","M","A","S"," ","U","N","I","F","I","E","D">>, 4221>>,
    <<<<"F","T","."," ","T","H","O","M","A","S"," ","U","S","D">>, 4221>>,
    <<<<"F","T"," ","T","H","O","M","A","S"," ","U","S","D">>, 4221>>,
    <<<<"B","O","N","I","T","A"," ","E","L","E","M","E","N","T","A","R","Y">>, 4224>>,
    <<<<"B","O","N","I","T","A"," ","E","S","D">>, 4224>>,
    <<<<"B","O","N","I","T","A"," ","U","S","D">>, 4224>>,
    <<<<"S","O","L","O","M","O","N"," ","E","L","E","M","E","N","T","A","R","Y">>, 4222>>,
    <<<<"S","O","L","O","M","O","N"," ","E","S","D">>, 4222>>,
    <<<<"A","G","U","A"," ","F","R","I","A"," ","U","N","I","O","N">>, 4289>>,
    <<<<"A","G","U","A"," ","F","R","I","A"," ","U","H","S","D">>, 4289>>,
    <<<<"A","L","H","A","M","B","R","A"," ","E","S","D">>, 4280>>,
    <<<<"A","L","H","A","M","B","R","A"," ","E","L","E","M","E","N","T","A","R","Y">>, 4280>>,
    <<<<"A","R","L","I","N","G","T","O","N"," ","E","S","D">>, 4274>>,
    <<<<"A","R","L","I","N","G","T","O","N"," ","E","L","E","M","E","N","T","A","R","Y">>, 4274>>,
    <<<<"A","V","O","N","D","A","L","E"," ","E","S","D">>, 4272>>,
    <<<<"A","V","O","N","D","A","L","E"," ","E","L","E","M","E","N","T","A","R","Y">>, 4272>>,
    <<<<"B","A","L","S","Z"," ","E","S","D">>, 4268>>,
    <<<<"B","A","L","S","Z"," ","E","L","E","M","E","N","T","A","R","Y">>, 4268>>,
    <<<<"B","U","C","K","E","Y","E"," ","E","S","D">>, 4269>>,
    <<<<"B","U","C","K","E","Y","E"," ","E","L","E","M","E","N","T","A","R","Y">>, 4269>>,
    <<<<"B","U","C","K","E","Y","E"," ","U","H","S","D">>, 4284>>,
    <<<<"B","U","C","K","E","Y","E"," ","U","N","I","O","N">>, 4284>>,
    <<<<"C","A","R","T","W","R","I","G","H","T"," ","E","S","D">>, 4282>>,
    <<<<"C","A","R","T","W","R","I","G","H","T"," ","E","L","E","M","E","N","T","A","R","Y">>, 4282>>,
    <<<<"C","A","V","E"," ","C","R","E","E","K"," ","U","S","D">>, 4244>>,
    <<<<"C","A","V","E"," ","C","R","E","E","K"," ","U","N","I","F","I","E","D">>, 4244>>,
    <<<<"C","H","A","N","D","L","E","R"," ","U","S","D">>, 4242>>,
    <<<<"C","H","A","N","D","L","E","R"," ","U","N","I","F","I","E","D">>, 4242>>,
    <<<<"C","R","E","I","G","H","T","O","N"," ","E","S","D">>, 4263>>,
    <<<<"C","R","E","I","G","H","T","O","N"," ","E","L","E","M","E","N","T","A","R","Y">>, 4263>>,
    <<<<"D","E","E","R"," ","V","A","L","L","E","Y"," ","U","S","D">>, 4246>>,
    <<<<"D","E","E","R"," ","V","A","L","L","E","Y"," ","U","N","I","F","I","E","D">>, 4246>>,
    <<<<"D","Y","S","A","R","T"," ","U","S","D">>, 4243>>,
    <<<<"D","Y","S","A","R","T"," ","U","N","I","F","I","E","D">>, 4243>>,
    <<<<"F","O","U","N","T","A","I","N"," ","H","I","L","L","S"," ","U","S","D">>, 4247>>,
    <<<<"F","O","U","N","T","A","I","N"," ","H","I","L","L","S"," ","U","N","I","F","I","E","D">>, 4247>>,
    <<<<"F","O","W","L","E","R"," ","E","S","D">>, 4273>>,
    <<<<"F","O","W","L","E","R"," ","E","L","E","M","E","N","T","A","R","Y">>, 4273>>,
    <<<<"G","I","L","A"," ","B","E","N","D"," ","U","S","D">>, 4238>>,
    <<<<"G","I","L","A"," ","B","E","N","D"," ","U","N","I","F","I","E","D">>, 4238>>,
    <<<<"G","I","L","B","E","R","T"," ","U","S","D">>, 4239>>,
    <<<<"G","I","L","B","E","R","T"," ","U","N","I","F","I","E","D">>, 4239>>,
    <<<<"G","L","E","N","D","A","L","E"," ","E","S","D">>, 4271>>,
    <<<<"G","L","E","N","D","A","L","E"," ","E","L","E","M","E","N","T","A","R","Y">>, 4271>>,
    <<<<"G","L","E","N","D","A","L","E"," ","U","H","S","D">>, 4285>>,
    <<<<"G","L","E","N","D","A","L","E"," ","U","N","I","O","N"," ","H","I","G","H">>, 4285>>,
    <<<<"H","I","G","L","E","Y"," ","U","S","D">>, 4248>>,
    <<<<"H","I","G","L","E","Y"," ","U","N","I","F","I","E","D">>, 4248>>,
    <<<<"I","S","A","A","C"," ","E","S","D">>, 4259>>,
    <<<<"I","S","A","A","C"," ","E","L","E","M","E","N","T","A","R","Y">>, 4259>>,
    <<<<"K","Y","R","E","N","E"," ","E","S","D">>, 4267>>,
    <<<<"K","Y","R","E","N","E"," ","E","L","E","M","E","N","T","A","R","Y">>, 4267>>,
    <<<<"L","A","V","E","E","N"," ","E","S","D">>, 4276>>,
    <<<<"L","A","V","E","E","N"," ","E","L","E","M","E","N","T","A","R","Y">>, 4276>>,
    <<<<"L","I","B","E","R","T","Y"," ","E","S","D">>, 4266>>,
    <<<<"L","I","B","E","R","T","Y"," ","E","L","E","M","E","N","T","A","R","Y">>, 4266>>,
    <<<<"L","I","T","C","H","F","I","E","L","D"," ","E","S","D">>, 4281>>,
    <<<<"L","I","T","C","H","F","I","E","L","D"," ","E","L","E","M","E","N","T","A","R","Y">>, 4281>>,
    <<<<"L","I","T","T","L","E","T","O","N"," ","E","S","D">>, 4278>>,
    <<<<"L","I","T","T","L","E","T","O","N"," ","E","L","E","M","E","N","T","A","R","Y">>, 4278>>,
    <<<<"M","A","D","I","S","O","N"," ","E","S","D">>, 4270>>,
    <<<<"M","A","D","I","S","O","N"," ","E","L","E","M","E","N","T","A","R","Y">>, 4270>>,
    <<<<"M","E","S","A"," ","U","S","D">>, 4235>>,
    <<<<"M","E","S","A"," ","U","N","I","F","I","E","D">>, 4235>>,
    <<<<"M","O","R","R","I","S","T","O","W","N"," ","E","S","D">>, 4251>>,
    <<<<"M","U","R","P","H","Y"," ","E","S","D">>, 4265>>,
    <<<<"M","U","R","P","H","Y"," ","E","L","E","M","E","N","T","A","R","Y">>, 4265>>,
    <<<<"N","A","D","A","B","U","R","G"," ","E","S","D">>, 4252>>,
    <<<<"N","A","D","A","B","U","R","G"," ","U","S","D">>, 4252>>,
    <<<<"O","S","B","O","R","N"," ","E","S","D">>, 4262>>,
    <<<<"O","S","B","O","R","N"," ","E","L","E","M","E","N","T","A","R","Y">>, 4262>>,
    <<<<"P","A","L","O"," ","V","E","R","D","E"," ","E","S","D">>, 4275>>,
    <<<<"P","A","L","O","M","A"," ","E","S","D">>, 4255>>,
    <<<<"P","A","R","A","D","I","S","E"," ","V","A","L","L","E","Y"," ","U","S","D">>, 4241>>,
    <<<<"P","A","R","A","D","I","S","E"," ","V","A","L","L","E","Y"," ","U","N","I","F","I","E","D">>, 4241>>,
    <<<<"P","A","R","A","D","I","S","E"," ","V","L","L","Y"," ","U","S","D">>, 4241>>,
    <<<<"P","E","N","D","E","R","G","A","S","T"," ","E","S","D">>, 4283>>,
    <<<<"P","E","N","D","E","R","G","A","S","T"," ","E","L","E","M","E","N","T","A","R","Y">>, 4283>>,
    <<<<"P","E","O","R","I","A"," ","U","S","D">>, 4237>>,
    <<<<"P","E","O","R","I","A"," ","U","N","I","F","I","E","D">>, 4237>>,
    <<<<"P","H","O","E","N","I","X"," ","E","S","D">>, 4256>>,
    <<<<"P","H","O","E","N","I","X"," ","E","L","E","M","E","N","T","A","R","Y">>, 4256>>,
    <<<<"P","H","O","E","N","I","X"," ","U","H","S","D">>, 4286>>,
    <<<<"P","H","O","E","N","I","X"," ","U","N","I","O","N"," ","H","I","G","H">>, 4286>>,
    <<<<"P","H","O","E","N","I","X"," ","U","N","I","O","N">>, 4286>>,
    <<<<"Q","U","E","E","N"," ","C","R","E","E","K"," ","U","S","D">>, 4245>>,
    <<<<"Q","U","E","E","N"," ","C","R","E","E","K"," ","E","S","D">>, 4245>>,
    <<<<"Q","U","E","E","N"," ","C","R","E","E","K"," ","U","N","I","F","I","E","D">>, 4245>>,
    <<<<"R","I","V","E","R","S","I","D","E"," ","E","S","D">>, 4257>>,
    <<<<"R","I","V","E","R","S","I","D","E"," ","E","L","E","M","E","N","T","A","R","Y">>, 4257>>,
    <<<<"R","O","O","S","E","V","E","L","T"," ","E","S","D">>, 4279>>,
    <<<<"R","O","O","S","E","V","E","L","T"," ","E","L","E","M","E","N","T","A","R","Y">>, 4279>>,
    <<<<"S","A","D","D","L","E"," ","M","O","U","N","T","A","I","N"," ","U","S","D">>, 4254>>,
    <<<<"S","A","D","D","L","E"," ","M","T","N"," ","U","S","D">>, 4254>>,
    <<<<"S","C","O","T","T","S","D","A","L","E"," ","U","S","D">>, 4240>>,
    <<<<"S","C","O","T","T","S","D","A","L","E"," ","U","N","I","F","I","E","D">>, 4240>>,
    <<<<"S","E","N","T","I","N","E","L"," ","E","S","D">>, 4250>>,
    <<<<"T","E","M","P","E"," ","E","S","D">>, 4258>>,
    <<<<"T","E","M","P","E"," ","S","C","H","O","O","L">>, 4258>>,
    <<<<"T","E","M","P","E"," ","U","H","S","D">>, 4287>>,
    <<<<"T","E","M","P","E"," ","U","N","I","O","N"," ","H","I","G","H">>, 4287>>,
    <<<<"T","E","M","P","E"," ","U","N","I","O","N">>, 4287>>,
    <<<<"T","O","L","L","E","S","O","N"," ","E","S","D">>, 4264>>,
    <<<<"T","O","L","L","E","S","O","N"," ","E","L","E","M","E","N","T","A","R","Y">>, 4264>>,
    <<<<"T","O","L","L","E","S","O","N"," ","U","H","S","D">>, 4288>>,
    <<<<"T","O","L","L","E","S","O","N"," ","U","N","I","O","N"," ","H","I","G","H">>, 4288>>,
    <<<<"U","N","I","O","N"," ","E","S","D">>, 4277>>,
    <<<<"U","N","I","O","N"," ","E","L","E","M","E","N","T","A","R","Y">>, 4277>>,
    <<<<"W","A","S","H","I","N","G","T","O","N"," ","E","S","D">>, 4260>>,
    <<<<"W","A","S","H","I","N","G","T","O","N"," ","E","L","E","M","E","N","T","A","R","Y">>, 4260>>,
    <<<<"W","I","C","K","E","N","B","U","R","G"," ","U","S","D">>, 4236>>,
    <<<<"W","I","C","K","E","N","B","U","R","G"," ","U","N","I","F","I","E","D">>, 4236>>,
    <<<<"W","I","L","S","O","N"," ","E","S","D">>, 4261>>,
    <<<<"W","I","L","S","O","N"," ","E","L","E","M","E","N","T","A","R","Y">>, 4261>>,
    <<<<"M","A","R","I","C","O","P","A"," ","U","N","I","F","I","E","D">>, 4441>>,
    <<<<"J"," ","O"," ","C","O","M","B","S"," ","U","N","I","F","I","E","D">>, 4445>>,
    <<<<"L","A","K","E"," ","H","A","V","A","S","U"," ","U","N","I","F","I","E","D">>, 4368>>,
    <<<<"L","A","K","E"," ","H","A","V","A","S","U"," ","U","S","D">>, 4368>>,
    <<<<"C","O","L","O","R","A","D","O"," ","C","I","T","Y"," ","U","N","I","F","I","E","D">>, 4370>>,
    <<<<"C","O","L","O","R","A","D","O"," ","C","I","T","Y"," ","U","S","D">>, 4370>>,
    <<<<"H","A","C","K","B","E","R","R","Y"," ","E","L","E","M","E","N","T","A","R","Y">>, 4371>>,
    <<<<"H","A","C","K","B","E","R","R","Y"," ","E","S","D">>, 4371>>,
    <<<<"T","O","P","O","C","K"," ","E","L","E","M","E","N","T","A","R","Y">>, 4376>>,
    <<<<"T","O","P","O","C","K"," ","E","S","D">>, 4376>>,
    <<<<"M","O","H","A","V","E"," ","V","A","L","L","E","Y"," ","E","L","E","M","E","N","T","A","R","Y">>, 4379>>,
    <<<<"V","A","L","E","N","T","I","N","E"," ","E","L","E","M","E","N","T","A","R","Y">>, 4380>>,
    <<<<"V","A","L","E","N","T","I","N","E"," ","E","S","D">>, 4380>>,
    <<<<"K","I","N","G","M","A","N"," ","U","N","I","F","I","E","D">>, 79598>>,
    <<<<"K","I","N","G","M","A","N"," ","U","S","D">>, 79598>>,
    <<<<"K","U","S","D">>, 79598>>,
    <<<<"B","U","L","L","H","E","A","D"," ","C","I","T","Y">>, 4378>>,
    <<<<"C","O","L","O","R","A","D","O"," ","R","I","V","E","R"," ","U","N","I","O","N"," ","H","I","G","H">>, 4381>>,
    <<<<"C","O","L","O","R","A","D","O"," ","R","I","V","E","R"," ","U","H","S","D">>, 4381>>,
    <<<<"C","O"," ","R","I","V","E","R"," ","U","N","I","O","N"," ","H","S">>, 4381>>,
    <<<<"C","R","U","H","S","D">>, 4381>>,
    <<<<"C","C","U","S","D">>, 4370>>,
    <<<<"L","H","U","S","D">>, 4368>>,
    <<<<"F","M","U","S","D">>, 4379>>,
    <<<<"K","I","N","G","M","A","N"," ","U","S"," ","D","I","S","T">>, 79598>>,
    <<<<"L","A","K","E"," ","H","A","V","A","S","U"," ","U","S"," ","D","I","S","T">>, 4368>>,
    <<<<"B","L","U","E"," ","R","I","D","G","E"," ","U","N","I","F","I","E","D">>, 4397>>,
    <<<<"B","L","U","E"," ","R","I","D","G","E"," ","U","S","D">>, 4397>>,
    <<<<"H","E","B","E","R","-","O","V","E","R","G","A","A","R","D"," ","U","N","I","F","I","E","D">>, 4392>>,
    <<<<"H","E","B","E","R","/","O","V","E","R","G","A","A","R","D"," ","U","S","D">>, 4392>>,
    <<<<"H","E","B","E","R"," ","O","V","E","R","G","A","A","R","D">>, 4392>>,
    <<<<"K","A","Y","E","N","T","A"," ","U","N","I","F","I","E","D">>, 4396>>,
    <<<<"K","A","Y","E","N","T","A"," ","U","S","D">>, 4396>>,
    <<<<"P","I","N","O","N"," ","U","N","I","F","I","E","D">>, 4390>>,
    <<<<"P","I","N","O","N"," ","U","S","D">>, 4390>>,
    <<<<"S","H","O","W"," ","L","O","W"," ","U","N","I","F","I","E","D">>, 4393>>,
    <<<<"S","H","O","W"," ","L","O","W"," ","U","S","D">>, 4393>>,
    <<<<"W","I","N","S","L","O","W"," ","U","N","I","F","I","E","D">>, 4387>>,
    <<<<"W","I","N","S","L","O","W"," ","U","S","D">>, 4387>>,
    <<<<"S","N","O","W","F","L","A","K","E"," ","U","N","I","F","I","E","D">>, 4391>>,
    <<<<"S","N","O","W","F","L","A","K","E"," ","U","S","D">>, 4391>>,
    <<<<"H","O","L","B","R","O","O","K"," ","U","N","I","F","I","E","D">>, 4389>>,
    <<<<"J","O","S","E","P","H"," ","C","I","T","Y"," ","U","N","I","F","I","E","D">>, 4388>>,
    <<<<"B","O","A","R","D"," ","M","E","M","B","E","R"," ","K","A","Y","E","N","T","A">>, 4396>>,
    <<<<"B","O","A","R","D"," ","M","E","M","B","E","R"," ","P","I","N","O","N">>, 4390>>,
    <<<<"B","O","A","R","D"," ","M","E","M","B","E","R"," ","S","H","O","W"," ","L","O","W">>, 4393>>,
    <<<<"B","O","A","R","D"," ","M","E","M","B","E","R"," ","W","I","N","S","L","O","W">>, 4387>>,
    <<<<"B","O","A","R","D"," ","M","E","M","B","E","R"," ","G","L","O","B","E">>, 4208>>,
    <<<<"T","U","C","S","O","N"," ","U","N","I","F","I","E","D">>, 4403>>,
    <<<<"T","U","C","S","O","N"," ","U","S","D">>, 4403>>,
    <<<<"M","A","R","A","N","A"," ","U","N","I","F","I","E","D">>, 4404>>,
    <<<<"M","A","R","A","N","A"," ","U","S","D">>, 4404>>,
    <<<<"F","L","O","W","I","N","G"," ","W","E","L","L","S"," ","U","N","I","F","I","E","D">>, 4405>>,
    <<<<"A","M","P","H","I","T","H","E","A","T","E","R"," ","U","N","I","F","I","E","D">>, 4406>>,
    <<<<"S","U","N","N","Y","S","I","D","E"," ","U","N","I","F","I","E","D">>, 4407>>,
    <<<<"T","A","N","Q","U","E"," ","V","E","R","D","E"," ","U","N","I","F","I","E","D">>, 4408>>,
    <<<<"A","J","O"," ","U","N","I","F","I","E","D">>, 4409>>,
    <<<<"C","A","T","A","L","I","N","A"," ","F","O","O","T","H","I","L","L","S"," ","U","N","I","F","I","E","D">>, 4410>>,
    <<<<"C","A","T","A","L","I","N","A"," ","F","O","O","T","H","I","L","L","S">>, 4410>>,
    <<<<"S","A","H","U","A","R","I","T","A"," ","U","N","I","F","I","E","D">>, 4411>>,
    <<<<"B","A","B","O","Q","U","I","V","A","R","I">>, 4412>>,
    <<<<"B","A","B","O","Q","U","I","V","A","R","I"," ","S","C","H","O","O","L">>, 4412>>,
    <<<<"V","A","I","L"," ","U","N","I","F","I","E","D">>, 4413>>,
    <<<<"C","O","N","T","I","N","E","N","T","A","L"," ","E","L","E","M","E","N","T","A","R","Y">>, 4416>>,
    <<<<"A","L","T","A","R"," ","V","A","L","L","E","Y">>, 4418>>,
    <<<<"A","L","T","A","R"," ","V","A","L","L","E","Y"," ","E","S","D">>, 4418>>,
    <<<<"A","P","A","C","H","E"," ","J","U","N","C","T","I","O","N"," ","U","N","I","F","I","E","D">>, 4443>>,
    <<<<"C","A","S","A"," ","G","R","A","N","D","E"," ","U","N","I","O","N"," ","H","I","G","H">>, 4453>>,
    <<<<"C","A","S","A"," ","G","R","A","N","D","E"," ","U","H","S","D">>, 4453>>,
    <<<<"C","O","O","L","I","D","G","E"," ","U","N","I","F","I","E","D">>, 4442>>,
    <<<<"E","L","O","Y"," ","E","L","E","M","E","N","T","A","R","Y">>, 4448>>,
    <<<<"F","L","O","R","E","N","C","E"," ","U","N","I","F","I","E","D">>, 4437>>,
    <<<<"S","A","C","A","T","O","N"," ","E","L","E","M","E","N","T","A","R","Y">>, 4449>>,
    <<<<"S","U","P","E","R","I","O","R"," ","U","N","I","F","I","E","D">>, 4440>>,
    <<<<"T","O","L","T","E","C"," ","E","L","E","M","E","N","T","A","R","Y">>, 4450>>,
    <<<<"T","O","L","T","E","C"," ","S","C","H","O","O","L">>, 4450>>,
    <<<<"S","A","N","T","A"," ","C","R","U","Z"," ","V","A","L","L","E","Y"," ","U","N","I","O","N"," ","H","I","G","H">>, 4454>>,
    <<<<"O","R","A","C","L","E"," ","E","L","E","M","E","N","T","A","R","Y">>, 4444>>,
    <<<<"R","A","Y"," ","U","N","I","F","I","E","D">>, 4438>>,
    <<<<"S","T","A","N","F","I","E","L","D"," ","E","L","E","M","E","N","T","A","R","Y">>, 4451>>,
    <<<<"P","I","C","A","C","H","O"," ","E","L","E","M","E","N","T","A","R","Y">>, 4452>>,
    <<<<"N","O","G","A","L","E","S"," ","U","N","I","F","I","E","D">>, 4457>>,
    <<<<"N","U","S","D">>, 4457>>,
    <<<<"B","O","A","R","D"," ","M","E","M","B","E","R"," ","U","S","D"," ","1">>, 4457>>,
    <<<<"S","A","N","T","A"," ","C","R","U","Z"," ","V","A","L","L","E","Y"," ","U","N","I","F","I","E","D">>, 4458>>,
    <<<<"S","C","V">>, 4458>>,
    <<<<"S","O","N","O","I","T","A"," ","E","L","E","M","E","N","T","A","R","Y">>, 4461>>,
    <<<<"S","C","E">>, 4461>>,
    <<<<"S","A","N","T","A"," ","C","R","U","Z"," ","E","L","E","M","E","N","T","A","R","Y">>, 4459>>,
    <<<<"B","A","G","D","A","D"," ","U","N","I","F","I","E","D">>, 4468>>,
    <<<<"B","A","G","D","A","D"," ","U","S","D">>, 4468>>,
    <<<<"H","U","M","B","O","L","D","T"," ","U","N","I","F","I","E","D">>, 4469>>,
    <<<<"H","U","M","B","O","L","D","T"," ","U","S","D">>, 4469>>,
    <<<<"S","E","L","I","G","M","A","N"," ","U","N","I","F","I","E","D">>, 4472>>,
    <<<<"S","E","L","I","G","M","A","N"," ","U","S","D">>, 4472>>,
    <<<<"Y","A","R","N","E","L","L"," ","E","L","E","M","E","N","T","A","R","Y">>, 4485>>,
    <<<<"Y","A","R","N","E","L","L"," ","E","S","D">>, 4485>>,
    <<<<"P","R","E","S","C","O","T","T"," ","U","N","I","F","I","E","D">>, 4466>>,
    <<<<"P","R","E","S","C","O","T","T"," ","U","S","D">>, 4466>>,
    <<<<"C","H","I","N","O"," ","V","A","L","L","E","Y"," ","U","N","I","F","I","E","D">>, 4474>>,
    <<<<"C","H","I","N","O"," ","V","A","L","L","E","Y"," ","U","S","D">>, 4474>>,
    <<<<"C","A","M","P"," ","V","E","R","D","E"," ","U","N","I","F","I","E","D">>, 4470>>,
    <<<<"C","A","M","P"," ","V","E","R","D","E"," ","U","S","D">>, 4470>>,
    <<<<"M","A","Y","E","R"," ","U","N","I","F","I","E","D">>, 4473>>,
    <<<<"M","A","Y","E","R"," ","U","S","D">>, 4473>>,
    <<<<"C","O","N","G","R","E","S","S"," ","E","L","E","M","E","N","T","A","R","Y">>, 4479>>,
    <<<<"C","O","N","G","R","E","S","S"," ","E","S","D">>, 4479>>,
    <<<<"C","A","N","O","N"," ","E","L","E","M","E","N","T","A","R","Y">>, 4484>>,
    <<<<"C","A","N","O","N"," ","E","S","D">>, 4484>>,
    <<<<"K","I","R","K","L","A","N","D"," ","E","L","E","M","E","N","T","A","R","Y">>, 4480>>,
    <<<<"K","I","R","K","L","A","N","D"," ","E","S","D">>, 4480>>,
    <<<<"C","L","A","R","K","D","A","L","E","-","J","E","R","O","M","E"," ","E","L","E","M","E","N","T","A","R","Y">>, 4486>>,
    <<<<"C","L","A","R","K","D","A","L","E","-","J","E","R","O","M","E"," ","E","S","D">>, 4486>>,
    <<<<"C","O","T","T","O","N","W","O","O","D","-","O","A","K"," ","C","R","E","E","K"," ","E","L","E","M","E","N","T","A","R","Y">>, 4487>>,
    <<<<"C","O","T","T","O","N","W","O","O","D","-","O","A","K"," ","C","R","E","E","K"," ","E","S","D">>, 4487>>,
    <<<<"M","I","N","G","U","S"," ","U","N","I","O","N"," ","H","I","G","H">>, 4488>>,
    <<<<"S","E","D","O","N","A","-","O","A","K"," ","C","R","E","E","K"," ","J","U","S","D">>, 4467>>,
    <<<<"S","E","D","O","N","A","-","O","A","K"," ","C","R","E","E","K"," ","J","O","I","N","T"," ","U","S","D">>, 4467>>,
    <<<<"Y","U","M","A"," ","E","L","E","M","E","N","T","A","R","Y">>, 4499>>,
    <<<<"S","O","M","E","R","T","O","N"," ","E","L","E","M","E","N","T","A","R","Y">>, 4500>>,
    <<<<"C","R","A","N","E"," ","E","L","E","M","E","N","T","A","R","Y">>, 4501>>,
    <<<<"G","A","D","S","D","E","N"," ","E","L","E","M","E","N","T","A","R","Y">>, 4505>>,
    <<<<"G","A","D","S","D","E","N"," ","E","S","D">>, 4505>>,
    <<<<"Y","U","M","A"," ","U","N","I","O","N"," ","H","I","G","H">>, 4507>>,
    <<<<"Y","U","M","A"," ","U","H","S","D">>, 4507>>,
    <<<<"M","O","H","A","W","K"," ","V","A","L","L","E","Y"," ","E","L","E","M","E","N","T","A","R","Y">>, 4503>>,
    <<<<"A","N","T","E","L","O","P","E"," ","U","N","I","O","N"," ","H","I","G","H">>, 4506>>,
    <<<<"A","N","T","E","L","O","P","E"," ","U","N","I","O","N"," ","H","S","D">>, 4506>>
>>

\* the dict with, for each character, the indices of the fragments that start
\* with it
ByFirst(entries) ==
    [entries |-> entries,
     first   |-> [c \in {entries[i][1][1] : i \in 1..Len(entries)} |->
                     {i \in 1..Len(entries) : entries[i][1][1] = c}]]

FragmentsByFirst == ByFirst(MANUAL_CTDS_MAP)

\* the indices of the fragments that occur in text at position p
FragmentsAt(dict, text, p) ==
    IF text[p] \in DOMAIN dict.first
    THEN {i \in dict.first[text[p]] : OccursAt(text, p, dict.entries[i][1])}
    ELSE {}

\* the value of the first of the entries hits, in insertion order
FirstOf(dict, hits) ==
    IF hits = {} THEN <<>>
    ELSE <<dict.entries[CHOOSE i \in hits : \A j \in hits : i <= j][2]>>

\* for key, ctds in dict.items(): if key in text: return ctds
FirstIn(dict, text) ==
    FirstOf(dict, UNION {FragmentsAt(dict, text, p) : p \in 1..Len(text)})

\* for key, ctds in MANUAL_CTDS_MAP.items(): if key in text: return ctds
\* <<>> stands for "no key is contained" (the loop ends), <<ctds>> for the
\* first key of the dict that is contained in text.
FirstFragment(text) == FirstIn(FragmentsByFirst, text)

(***************************************************************************)
(* normalize_race_name                                                     *)
(***************************************************************************)
NormPrefixes == <<
    <<"G","O","V","E","R","N","I","N","G"," ","B","O","A","R","D"," ","-"," ">>, <<"G","O","V","E","R","N","I","N","G"," ","B","O","A","R","D",","," ">>, <<"G","O","V","E","R","N","I","N","G"," ","B","O","A","R","D"," ">>,
    <<"G","O","V","E","R","N","I","N","G"," ","B","O","A","R","D"," ","2","-","Y","E","A","R"," ","T","E","R","M"," ","-"," ">>, <<"G","O","V","E","R","N","I","N","G"," ","B","O","A","R","D"," ","2","-","Y","E","A","R"," ","T","E","R","M"," ">>,
    <<"B","O","A","R","D"," ","M","E","M","B","E","R"," ","-"," ">>, <<"B","O","A","R","D"," ","M","E","M","B","E","R"," ">>, <<"B","D"," ","M","E","M","B","E","R"," ">>, <<"B","R","D"," ","M","E","M","B","E","R"," ">>,
    <<"S","C","H","O","O","L"," ","B","O","A","R","D"," ","M","E","M","B","E","R"," ">>, <<"F","L","O","R","E","N","C","E"," ","B","O","A","R","D"," ","M","E","M","B","E","R"," ">> >>

NormSuffixes == <<
    <<" ","B","O","A","R","D"," ","M","E","M","B","E","R">>, <<" ","-"," ","B","O","A","R","D"," ","M","E","M","B","E","R">>,
    <<"-","G","B","M","-","4","Y","R">>, <<"-","G","B","M","-","2","Y","R">>, <<"-","G","B","M">>,
    <<" ","G","O","V"," ","B","R","D"," ","-"," ","4","Y","R">>, <<" ","G","O","V"," ","B","R","D"," ","-"," ","2","Y","R">>, <<" ","G","O","V"," ","B","R","D">>,
    <<":"," ","4","-","Y","E","A","R"," ","T","E","R","M">>, <<":"," ","2","-","Y","E","A","R"," ","T","E","R","M">>, <<":"," ","4","Y","R">>, <<":"," ","2","Y","R">> >>

RECURSIVE StripPrefixes(_, _)
\* for prefix in [...]: if t.startswith(prefix): t = t[len(prefix):]
StripPrefixes(t, i) ==
    IF i > Len(NormPrefixes) THEN t
    ELSE IF StartsWith(t, NormPrefixes[i])
         THEN StripPrefixes(SubSeq(t, Len(NormPrefixes[i]) + 1, Len(t)), i + 1)
         ELSE StripPrefixes(t, i + 1)

RECURSIVE StripSuffixes(_, _)
\* for suffix in [...]: if t.endswith(suffix): t = t[:-len(suffix)]
StripSuffixes(t, i) ==
    IF i > Len(NormSuffixes) THEN t
    ELSE IF EndsWith(t, NormSuffixes[i])
         THEN StripSuffixes(SubSeq(t, 1, Len(t) - Len(NormSuffixes[i])), i + 1)
         ELSE StripSuffixes(t, i + 1)

\* \s*\(ELECT\s+\d+\)
ReElect == <<Star(WhiteSpace)>> \o Lit(<<"(","E","L","E","C","T">>) \o <<Plus(WhiteSpace), Plus(Digits), One(")")>>
\* \s*\(SELECT\s+\d+\)
ReSelect == <<Star(WhiteSpace)>> \o Lit(<<"(","S","E","L","E","C","T">>) \o <<Plus(WhiteSpace), Plus(Digits), One(")")>>
\* \s*\(VOTE\s+(?:FOR\s+)?\d+\) with the optional group present ...
ReVoteFor == <<Star(WhiteSpace)>> \o Lit(<<"(","V","O","T","E">>) \o <<Plus(WhiteSpace)>> \o Lit(<<"F","O","R">>)
             \o <<Plus(WhiteSpace), Plus(Digits), One(")")>>
\* ... and absent.  After "(VOTE" and white space the next character is F or a
\* digit, so at most one of the two alternatives matches at a position.
ReVote == <<Star(WhiteSpace)>> \o Lit(<<"(","V","O","T","E">>) \o <<Plus(WhiteSpace), Plus(Digits), One(")")>>
\* \s*VACANCY$
ReVacancy == <<Star(WhiteSpace)>> \o Lit(<<"V","A","C","A","N","C","Y">>) \o <<EndS>>
\* \bSCH\.?\s*DIST\.?\s*
ReSchDist == <<WordB>> \o Lit(<<"S","C","H">>) \o <<Opt("."), Star(WhiteSpace)>> \o Lit(<<"D","I","S","T">>)
             \o <<Opt("."), Star(WhiteSpace)>>
\* \bS\.D\.\s*
ReSD == <<WordB>> \o Lit(<<"S",".","D",".">>) \o <<Star(WhiteSpace)>>
\* \bELEM\.?\s*
ReElem == <<WordB>> \o Lit(<<"E","L","E","M">>) \o <<Opt("."), Star(WhiteSpace)>>
\* \bSCHOOL DISTRICT\b
ReSchoolDistrict == <<WordB>> \o Lit(<<"S","C","H","O","O","L"," ","D","I","S","T","R","I","C","T">>) \o <<WordB>>
\* \s*#\s*0*(\d+)            the group is item 5
ReHash == <<Star(WhiteSpace), One("#"), Star(WhiteSpace), Star({"0"}), Plus(Digits)>>
\* \s*NO\.?\s*0*(\d+)         the group is item 6
ReNo == <<Star(WhiteSpace)>> \o Lit(<<"N","O">>) \o <<Opt("."), Star(WhiteSpace), Star({"0"}), Plus(Digits)>>
\* \s*DIST\.?\s*0*(\d+)       the group is item 6
ReDist == <<Star(WhiteSpace)>> \o Lit(<<"D","I","S","T">>) \o <<Opt("."), Star(WhiteSpace), Star({"0"}), Plus(Digits)>>
\* \s+#?\d+\s*$
ReTrailingNumber == <<Plus(WhiteSpace), Opt("#"), Plus(Digits), Star(WhiteSpace), EndS>>
\* \s+
ReSpaces == <<Plus(WhiteSpace)>>

Sub(items, repl, grp) == [items |-> items, repl |-> repl, grp |-> grp]

\* the re.sub calls of normalize_race_name, in order
NormSubs == <<
    Sub(ReElect, <<>>, 0),
    Sub(ReSelect, <<>>, 0),
    Sub(ReVoteFor, <<>>, 0),
    Sub(ReVote, <<>>, 0),
    Sub(ReVacancy, <<>>, 0),
    Sub(ReSchDist, <<"S","C","H","O","O","L"," ","D","I","S","T","R","I","C","T"," ">>, 0),
    Sub(ReSD, <<"S","C","H","O","O","L"," ","D","I","S","T","R","I","C","T"," ">>, 0),
    Sub(ReElem, <<"E","L","E","M","E","N","T","A","R","Y"," ">>, 0),
    Sub(ReSchoolDistrict, <<>>, 0),
    Sub(ReHash, <<" ","#">>, 5),
    Sub(ReNo, <<" ","#">>, 6),
    Sub(ReDist, <<" ","#">>, 6),
    Sub(ReTrailingNumber, <<>>, 0),
    Sub(ReSpaces, <<" ">>, 0) >>

RECURSIVE ApplySubs(_, _)
\* t = re.sub(...) for the calls i.. of NormSubs; no pattern matches in an
\* empty text
ApplySubs(t, i) ==
    IF i > Len(NormSubs) \/ t = <<>> THEN t
    ELSE ApplySubs(ReSub(NormSubs[i].items, NormSubs[i].repl, NormSubs[i].grp, t), i + 1)

normalize_race_name(text) ==
    Strip(ApplySubs(StripSuffixes(StripPrefixes(Strip(Upper(text)), 1), 1), 1))

(***************************************************************************)
(* match_to_ctds                                                           *)
(***************************************************************************)
\* texts_to_try: the district, the office, "office - district"
texts_to_try(office, district) ==
    IF Strip(district) # <<>>
    THEN <<Strip(district), Strip(office), Strip(office) \o <<" ","-"," ">> \o Strip(district)>>
    ELSE <<Strip(office)>>

\* (office + " " + district).upper().replace("|", " ").strip(), white space collapsed
CombinedText(office, district) ==
    ReSub(ReSpaces, <<" ">>, 0, Strip(ReplaceChar(Upper(office \o <<" ">> \o district), "|", " ")))

\* a lookup that returns when it finds an identifier: found if there is one,
\* otherwise what the code after it gives
OrElse(found, otherwise) == IF found # <<>> THEN found ELSE otherwise

RECURSIVE MatchTextsRaw(_, _)
MatchTextsRaw(texts, i) ==
    IF i > Len(texts) THEN <<>>
    ELSE OrElse(FirstFragment(Strip(Upper(texts[i]))), MatchTextsRaw(texts, i + 1))

RECURSIVE MatchNormalized(_, _)
MatchNormalized(texts, i) ==
    IF i > Len(texts) THEN <<>>
    ELSE OrElse(FirstFragment(normalize_race_name(texts[i])), MatchNormalized(texts, i + 1))

\* the loop over texts_to_try with every upper-cased text before any normalized one
MatchTextsRawFirst(texts, i) ==
    OrElse(MatchTextsRaw(texts, i), MatchNormalized(texts, i))

RECURSIVE MatchTexts(_, _)
\* the loop over texts_to_try: the upper-cased text first, then the normalized one
MatchTexts(texts, i) ==
    IF i > Len(texts) THEN <<>>
    ELSE OrElse(FirstFragment(Strip(Upper(texts[i]))),
                OrElse(FirstFragment(normalize_race_name(texts[i])),
                       MatchTexts(texts, i + 1)))

\* match_to_ctds without the attempts on normalized text
match_to_ctds_RawOnly(office, district, county) ==
    OrElse(MatchTextsRaw(texts_to_try(office, district), 1),
           FirstFragment(CombinedText(office, district)))

\* the last two attempts, on the combined text
MatchCombined(combined) ==
    OrElse(FirstFragment(combined), FirstFragment(normalize_race_name(combined)))

\* match_to_ctds(office, district, county): <<ctds>> or <<>> for None.  The county
\* is not read.
match_to_ctds(office, district, county) ==
    OrElse(MatchTexts(texts_to_try(office, district), 1),
           MatchCombined(CombinedText(office, district)))

(***************************************************************************)
(* is_school_board_race                                                    *)
(***************************************************************************)
DisqualifyingKeywords == {
    <<"Q","U","E","S","T","I","O","N">>, <<"P","R","O","P","O","S","I","T","I","O","N">>, <<"B","O","N","D">>, <<"O","V","E","R","R","I","D","E">>, <<"B","U","D","G","E","T">>,
    <<"S","A","L","E">>, <<"L","E","A","S","E">>, <<"J","T","E","D">>, <<"C","A","P","I","T","A","L"," ","I","M","P","R","O","V">>, <<"R","E","O","R","G","A","N","I","Z","A","T","I","O","N">>,
    <<"D","I","S","T","R","I","C","T"," ","A","D","D","I","T","I","O","N","A","L"," ","A","S","S","I","S","T","A","N","C","E">>, <<"M","A","I","N","."," ","&"," ","O","P","E","R","A","T","I","O","N","S">>,
    <<"R","E","C","A","L","L">>, <<"R","E","F","E","R","E","N","D","U","M">> }

board_keywords == {
    <<"G","O","V","E","R","N","I","N","G"," ","B","O","A","R","D">>, <<"G","B","M">>, <<"G","O","V"," ","B","R","D">>, <<"B","O","A","R","D"," ","M","E","M","B","E","R">>,
    <<"B","D"," ","M","E","M","B","E","R">>, <<"B","R","D"," ","M","E","M","B","E","R">>, <<"S","C","H","O","O","L"," ","B","O","A","R","D">> }

district_keywords == { <<"E","S","D">>, <<"U","S","D">>, <<"U","H","S","D">>, <<"S","C","H","O","O","L"," ","D","I","S","T">>, <<"S",".","D",".">>, <<"U","N","I","F","I","E","D">> }

NonSchoolKeywords == {
    <<"F","I","R","E">>, <<"W","A","T","E","R">>, <<"S","A","N","I","T","A","R","Y">>, <<"H","O","S","P","I","T","A","L">>, <<"C","O","M","M","U","N","I","T","Y"," ","C","O","L","L","E","G","E">>,
    <<"C","A","W","C","D">>, <<"D","W","I","D">>, <<"S","A","N","I","T","A","T","I","O","N">>, <<"D","O","M","E","S","T","I","C"," ","W","A","T","E","R">>,
    <<"P","I","M","A"," ","C","O","M","M","U","N","I","T","Y">>, <<"P","I","N","A","L"," ","C","O","U","N","T","Y"," ","C","O","M","M">>, <<"C","O","C","H","I","S","E"," ","C","O","L","L","E","G","E">>,
    <<"N","O","R","T","H","L","A","N","D"," ","P","I","O","N","E","E","R">>, <<"E","A","S","T"," ","V","A","L","L","E","Y"," ","I","N","S","T","I","T","U","T","E">>,
    <<"C","E","N","T","R","A","L"," ","A","R","I","Z","O","N","A"," ","V","A","L","L","E","Y"," ","I","N","S","T","I","T","U","T","E">>, <<"M","C","C","D">>,
    <<"A","R","I","Z","O","N","A"," ","C","I","T","Y">>, <<"P","O","M","E","R","E","N","E"," ","W","A","T","E","R">>, <<"R","I","M"," ","T","R","A","I","L">> }

SeatKeywords == { <<"E","L","E","C","T">>, <<"S","E","L","E","C","T">>, <<"V","O","T","E"," ","F","O","R">>, <<"4","-","Y","E","A","R">>, <<"2","-","Y","E","A","R">>, <<"4","Y","R">>, <<"2","Y","R">> }

\* is_school_board_race without the rule for a bare district name as the office
is_school_board_race_NoStandalone(office, district) ==
    LET combined == Upper(office \o <<" ">> \o district)
    IN  IF AnyIn(combined, DisqualifyingKeywords) THEN FALSE
        ELSE IF AnyIn(combined, board_keywords)
             THEN ~AnyIn(combined, NonSchoolKeywords)
             ELSE AnyIn(combined, district_keywords) /\ AnyIn(combined, SeatKeywords)

\* is_school_board_race without the exclusion of non-school boards
is_school_board_race_NoExclusion(office, district) ==
    LET combined == Upper(office \o <<" ">> \o district)
        combined_pipe == ReplaceChar(combined, "|", " ")
    IN  IF AnyIn(combined, DisqualifyingKeywords) THEN FALSE
        ELSE \/ AnyIn(combined, board_keywords)
             \/ /\ AnyIn(combined, district_keywords)
                /\ \/ AnyIn(combined, SeatKeywords)
                   \/ match_to_ctds(office, district, <<>>) # <<>>
             \/ /\ AnyIn(combined_pipe, district_keywords)
                /\ match_to_ctds(office, district, <<>>) # <<>>

\* is_school_board_race with the governing-board keywords looked at before
\* the disqualifying ones
is_school_board_race_BoardFirst(office, district) ==
    LET combined == Upper(office \o <<" ">> \o district)
        combined_pipe == ReplaceChar(combined, "|", " ")
    IN  IF AnyIn(combined, board_keywords)
        THEN ~AnyIn(combined, NonSchoolKeywords)
        ELSE IF AnyIn(combined, DisqualifyingKeywords) THEN FALSE
        ELSE \/ /\ AnyIn(combined, district_keywords)
                /\ \/ AnyIn(combined, SeatKeywords)
                   \/ match_to_ctds(office, district, <<>>) # <<>>
             \/ /\ AnyIn(combined_pipe, district_keywords)
                /\ match_to_ctds(office, district, <<>>) # <<>>

is_school_board_race(office, district) ==
    LET combined == Upper(office \o <<" ">> \o district)
        combined_pipe == ReplaceChar(combined, "|", " ")
    IN  IF AnyIn(combined, DisqualifyingKeywords) THEN FALSE
        ELSE IF AnyIn(combined, board_keywords)
             THEN ~AnyIn(combined, NonSchoolKeywords)
             ELSE \/ /\ AnyIn(combined, district_keywords)
                     /\ \/ AnyIn(combined, SeatKeywords)
                        \/ match_to_ctds(office, district, <<>>) # <<>>
                  \/ /\ AnyIn(combined_pipe, district_keywords)
                     /\ match_to_ctds(office, district, <<>>) # <<>>

(***************************************************************************)
(* int(float(x)): Python's conversion of a decimal numeral                 *)
(***************************************************************************)
DigitValue ==
    ("0" :> 0) @@ ("1" :> 1) @@ ("2" :> 2) @@ ("3" :> 3) @@ ("4" :> 4) @@
    ("5" :> 5) @@ ("6" :> 6) @@ ("7" :> 7) @@ ("8" :> 8) @@ ("9" :> 9)

RECURSIVE DigitsValue(_)
\* the number a run of digits denotes
DigitsValue(ds) ==
    IF ds = <<>> THEN 0
    ELSE 10 * DigitsValue(SubSeq(ds, 1, Len(ds) - 1)) + DigitValue[ds[Len(ds)]]

\* a numeral starts with the sign "-"
IsNegative(t) == t # <<>> /\ t[1] = "-"

\* a numeral without its sign
Unsigned(t) == IF t # <<>> /\ t[1] \in {"-", "+"} THEN Tail(t) ELSE t

\* the value of a numeral: the conversion succeeded
Parsed(neg, v) == [ok |-> TRUE, val |-> IF neg THEN -v ELSE v, overflow |-> FALSE]

\* the conversion raised ValueError
NotParsed == [ok |-> FALSE, val |-> 0, overflow |-> FALSE]

\* float gave an infinity, of which int raises OverflowError
Overflows == [ok |-> FALSE, val |-> 0, overflow |-> TRUE]

\* body is the numeral without its sign: digits only, and at least one
IntOfDigits(neg, body) ==
    IF body # <<>> /\ RunLen(body, 1, Digits) = Len(body)
    THEN Parsed(neg, DigitsValue(body))
    ELSE NotParsed

RECURSIVE Pow10(_)
\* 10 ** k
Pow10(k) == IF k = 0 THEN 1 ELSE 10 * Pow10(k - 1)

RECURSIVE NumDigits(_)
\* the number of digits of d > 0
NumDigits(d) == IF d < 10 THEN 1 ELSE 1 + NumDigits(d \div 10)

\* int of the float d * 10**shift: the float is an infinity from 1e309 on
\* (floats between 2**31 and 1e309 are outside the numerals of the model)
Scaled(neg, d, shift) ==
    IF d = 0 THEN Parsed(neg, 0)
    ELSE IF NumDigits(d) + shift > 309 THEN Overflows
    ELSE IF shift >= 0 THEN Parsed(neg, d * Pow10(shift))
    ELSE IF -shift > 9 THEN Parsed(neg, 0)
    ELSE Parsed(neg, d \div Pow10(-shift))

\* the number of digits after the point that rest starts with
FractionLen(rest) ==
    IF rest # <<>> /\ rest[1] = "." THEN RunLen(rest, 2, Digits) ELSE 0

\* what follows the point and the m digits after it
AfterFraction(rest, m) ==
    IF rest # <<>> /\ rest[1] = "." THEN SubSeq(rest, m + 2, Len(rest)) ELSE rest

\* the exponent a numeral ends with: none, or e or E, an optional sign and
\* digits
ExponentOf(rest) ==
    IF rest = <<>> THEN Parsed(FALSE, 0)
    ELSE IF rest[1] \in {"e", "E"}
    THEN IntOfDigits(IsNegative(Tail(rest)), Unsigned(Tail(rest)))
    ELSE NotParsed

\* the digits d of the numeral, m of them after the point, and its exponent
FloatScaled(neg, d, m, exponent) ==
    IF exponent.ok THEN Scaled(neg, d, exponent.val - m) ELSE NotParsed

\* body starts with n digits, rest follows them and starts with a point and m
\* digits: the numeral is well formed when it has a digit and nothing but an
\* exponent follows
FloatOfParts(neg, body, n, rest, m) ==
    IF n + m >= 1
    THEN FloatScaled(neg, DigitsValue(SubSeq(body, 1, n) \o SubSeq(rest, 2, m + 1)), m,
                     ExponentOf(AfterFraction(rest, m)))
    ELSE NotParsed

FloatOfDigits(neg, body, n) ==
    FloatOfParts(neg, body, n, SubSeq(body, n + 1, Len(body)),
                 FractionLen(SubSeq(body, n + 1, Len(body))))

\* float(t) of "inf" and "infinity" in any case is an infinity, of "nan" it is
\* a NaN, of which int raises ValueError
FloatOfStripped(t) ==
    IF Upper(Unsigned(t)) \in {<<"I","N","F">>, <<"I","N","F","I","N","I","T","Y">>} THEN Overflows
    ELSE IF Upper(Unsigned(t)) = <<"N","A","N">> THEN NotParsed
    ELSE FloatOfDigits(IsNegative(t), Unsigned(t), RunLen(Unsigned(t), 1, Digits))

\* int(float(text)) for text in the forms
\*   [sign] digits [ "." [digits] ] [exponent],  [sign] "." digits [exponent],
\*   [sign] inf | infinity | nan
\* white space around it ignored: the number is truncated towards zero.  ok is
\* FALSE when the conversion raises: OverflowError if overflow, else ValueError,
\* which any other text of the model raises.
IntFloat(text) == FloatOfStripped(Strip(text))

(***************************************************************************)
(* Ordering of str values, as sorted() compares them: by code point        *)
(***************************************************************************)
\* the characters of the model's texts in code point order
CodeOrder == <<" ","#","&","(",")","+",",","-",".","/","0","1","2","3","4","5","6","7","8","9",":","A","B","C","D","E","F","G","H","I","J","K","L","M","N","O","P","Q","R","S","T","U","V","W","X","Y","Z","_","a","b","c","d","e","f","g","h","i","j","k","l","m","n","o","p","q","r","s","t","u","v","w","x","y","z","|">>

CodePoint == [c \in {CodeOrder[i] : i \in 1..Len(CodeOrder)} |->
                 CHOOSE i \in 1..Len(CodeOrder) : CodeOrder[i] = c]

RECURSIVE StrLess(_, _)
\* a < b for two str values
StrLess(a, b) ==
    IF b = <<>> THEN FALSE
    ELSE IF a = <<>> THEN TRUE
    ELSE IF a[1] = b[1] THEN StrLess(Tail(a), Tail(b))
    ELSE CodePoint[a[1]] < CodePoint[b[1]]

RECURSIVE TupleLess(_, _)
\* a < b for two tuples of str values of the same length
TupleLess(a, b) ==
    IF a = <<>> THEN FALSE
    ELSE IF a[1] = b[1] THEN TupleLess(Tail(a), Tail(b))
    ELSE StrLess(a[1], b[1])

(***************************************************************************)
(* aggregate_to_candidates                                                 *)
(***************************************************************************)
\* A sub-total of a precinct record is a str of the source file (StrVal) or,
\* in the contesttitle layout, an int (IntVal).
StrVal(s) == [isInt |-> FALSE, s |-> s, n |-> 0]
IntVal(n) == [isInt |-> TRUE, s |-> <<>>, n |-> n]

\* `if r[field]`: a str is true when it is not empty, an int when it is not 0
Truthy(x) == IF x.isInt THEN x.n # 0 ELSE x.s # <<>>

\* val = int(float(r[field])) if r[field] else 0; agg[key][field] += val, and
\* a ValueError passes: what one record adds to a sub-total
SubTotalOf(x) ==
    IF ~Truthy(x) THEN 0
    ELSE IF x.isInt THEN x.n
    ELSE IF IntFloat(x.s).ok THEN IntFloat(x.s).val ELSE 0

\* int(float(r[field])) raises OverflowError, which the try does not catch
SubTotalRaises(x) == Truthy(x) /\ ~x.isInt /\ IntFloat(x.s).overflow

\* aggregate_to_candidates raises on a list of records
AggregateRaises(rs) ==
    \E i \in 1..Len(rs) :
        \E field \in {"early_voting", "election_day", "provisional"} :
            SubTotalRaises(rs[i][field])

\* KeyOf with the candidate's name folded to upper case: grouping that is not
\* by exact string equality
KeyOfFolded(r) == <<r.county, r.office, r.district, Upper(r.candidate), r.party>>

\* key = (r['county'], r['office'], r['district'], r['candidate'], r['party'])
KeyOf(r) == <<r.county, r.office, r.district, r.candidate, r.party>>

\* what record r adds to agg[key][field]
Added(r, field) ==
    IF field = "total_votes" THEN r.total_votes ELSE SubTotalOf(r[field])

RECURSIVE SumOver(_, _, _)
\* agg[k][field] after the loop: the sum over the records of rs with key k
SumOver(rs, k, field) ==
    IF rs = <<>> THEN 0
    ELSE (IF KeyOf(Head(rs)) = k THEN Added(Head(rs), field) ELSE 0)
         + SumOver(Tail(rs), k, field)

RECURSIVE SortKeys(_)
\* sorted(agg.items()): the keys in increasing order
SortKeys(ks) ==
    IF ks = {} THEN <<>>
    ELSE LET least == CHOOSE k \in ks : \A o \in ks : o = k \/ TupleLess(k, o)
         IN  <<least>> \o SortKeys(ks \ {least})

\* vals[field] if vals[field] > 0 else '': <<>> stands for ''
SubTotalOut(n) == IF n > 0 THEN <<n>> ELSE <<>>

\* an aggregate for every record: no grouping
aggregate_to_candidates_PerRecord(rs) ==
    [j \in 1..Len(rs) |->
        [county       |-> rs[j].county,
         office       |-> rs[j].office,
         district     |-> rs[j].district,
         candidate    |-> rs[j].candidate,
         party        |-> rs[j].party,
         total_votes  |-> rs[j].total_votes,
         early_voting |-> SubTotalOut(SubTotalOf(rs[j].early_voting)),
         election_day |-> SubTotalOut(SubTotalOf(rs[j].election_day)),
         provisional  |-> SubTotalOut(SubTotalOf(rs[j].provisional))]]

aggregate_to_candidates(rs) ==
    LET keys == SortKeys({KeyOf(rs[i]) : i \in 1..Len(rs)})
    IN  [j \in 1..Len(keys) |->
            [county       |-> keys[j][1],
             office       |-> keys[j][2],
             district     |-> keys[j][3],
             candidate    |-> keys[j][4],
             party        |-> keys[j][5],
             total_votes  |-> SumOver(rs, keys[j], "total_votes"),
             early_voting |-> SubTotalOut(SumOver(rs, keys[j], "early_voting")),
             election_day |-> SubTotalOut(SumOver(rs, keys[j], "election_day")),
             provisional  |-> SubTotalOut(SumOver(rs, keys[j], "provisional"))]]

(***************************************************************************)
(* Reading a source file: csv.DictReader, is_metadata_row, extract_records *)
(***************************************************************************)
\* str.lower() on one character
LowerMap == [c \in UpperLetters |-> CHOOSE l \in LowerLetters : UpperMap[l] = c]

\* text.lower()
Lower(t) == [i \in 1..Len(t) |-> IF t[i] \in UpperLetters THEN LowerMap[t[i]] ELSE t[i]]

\* None, as the value of a cell: a row with fewer cells than the header has None
\* in the missing columns (DictReader's restval)
NoneVal == <<"None">>

\* A source file is its header (fields) and its rows, every cell a str.
\* row.get(name, default) on the dict DictReader builds for a row
Get(fields, row, name, default) ==
    LET at == {i \in 1..Len(fields) : fields[i] = name}
    IN  IF at = {} THEN default
        ELSE LET i == CHOOSE x \in at : \A y \in at : y <= x
             IN  IF i > Len(row) THEN NoneVal ELSE row[i]

MetadataLabels == {
    <<"R","E","G","I","S","T","E","R","E","D"," ","V","O","T","E","R","S">>, <<"B","A","L","L","O","T","S"," ","C","A","S","T">>, <<"B","A","L","L","O","T","S"," ","C","A","S","T"," ","B","L","A","N","K">>,
    <<"T","O","T","A","L"," ","V","O","T","E","S">>, <<"U","N","D","E","R"," ","V","O","T","E">>, <<"O","V","E","R"," ","V","O","T","E">>, <<"U","N","D","E","R","V","O","T","E">>, <<"O","V","E","R","V","O","T","E">>,
    <<"W","R","I","T","E","-","I","N"," ","T","O","T","A","L","S">>, <<"W","R","I","T","E","-","I","N","S">>, <<"W","R","I","T","E"," ","I","N">>, <<"W","R","I","T","E","-","I","N">>,
    <<"N","U","M","B","E","R"," ","O","F"," ","P","R","E","C","I","N","C","T","S">>, <<"N","U","M","B","E","R"," ","O","F"," ","P","R","E","C","I","N","C","T","S"," ","F","O","R"," ","R","A","C","E">>,
    <<"N","U","M","B","E","R"," ","O","F"," ","P","R","E","C","I","N","C","T","S"," ","R","E","P","O","R","T","I","N","G">>, <<"T","I","M","E","S"," ","C","O","U","N","T","E","D">>,
    <<"N","O"," ","O","F","F","I","C","I","A","L"," ","C","A","N","D","I","D","A","T","E">> }

is_metadata_row(candidate) ==
    LET upper == Strip(Upper(candidate))
    IN  \/ upper \in MetadataLabels
        \/ StartsWith(upper, <<"T","O","T","A","L">>) \/ StartsWith(upper, <<"U","N","D","E","R"," ">>)
        \/ StartsWith(upper, <<"O","V","E","R"," ">>)
        \/ StartsWith(upper, <<"W","R","I","T","E","-","I","N">>) \/ StartsWith(upper, <<"W","R","I","T","E"," ","I","N">>)
        \/ Contains(upper, <<"T","U","R","N","O","U","T">>) \/ Contains(upper, <<"R","E","G","I","S","T","E","R","E","D">>)

\* try: v = int(float(votes)) except (ValueError, TypeError): v = 0
VotesOf(votes) ==
    IF votes = NoneVal THEN 0
    ELSE IF IntFloat(votes).ok THEN IntFloat(votes).val ELSE 0

\* int(float(votes)) raises an exception the try statement does not catch
VotesRaise(votes) == votes # NoneVal /\ IntFloat(votes).overflow

\* int(text) for a str: an integer numeral, white space around it ignored
IntOf(text) == IntOfDigits(IsNegative(Strip(text)), Unsigned(Strip(text)))

\* a cell as a sub-total of a record; None is as false as ''
CellVal(x) == IF x = NoneVal THEN StrVal(<<>>) ELSE StrVal(x)

\* the layout extract_records detects from the lower-cased header names, in
\* the order of its if/elif chain
LayoutOf(fields) ==
    LET fields_lower == {Lower(fields[i]) : i \in 1..Len(fields)}
    IN  IF fields = <<>> THEN "none"
        ELSE IF <<"c","o","n","t","e","s","t","_","n","a","m","e">> \in fields_lower THEN "contest_name"
        ELSE IF <<"c","o","n","t","e","s","t","t","i","t","l","e">> \in fields_lower THEN "contesttitle"
        ELSE IF <<"r","a","c","e">> \in fields_lower /\ <<"r","a","c","e","_","i","d">> \in fields_lower THEN "race"
        ELSE IF <<"c","o","n","t","e","s","t","_","n","a","m","e">> \in fields_lower THEN "pinal"
        ELSE IF <<"o","f","f","i","c","e">> \in fields_lower THEN "office"
        ELSE "unknown"

\* The cells one row gives in a layout: office, district, candidate, party,
\* votes and the three sub-totals, and whether the row is dropped before the
\* race is looked at (the candidate_id test of the race layout).
RowCells(layout, fields, row) ==
    IF layout = "contest_name" THEN
        [office    |-> Get(fields, row, <<"c","o","n","t","e","s","t","_","n","a","m","e">>, <<>>),
         district  |-> <<>>,
         candidate |-> Get(fields, row, <<"c","h","o","i","c","e","_","n","a","m","e">>, <<>>),
         party     |-> <<>>,
         votes     |-> Get(fields, row, <<"v","o","t","e","_","t","o","t","a","l">>, <<"0">>),
         early_voting |-> StrVal(<<>>), election_day |-> StrVal(<<>>),
         provisional  |-> StrVal(<<>>),
         dropped   |-> FALSE]
    ELSE IF layout = "contesttitle" THEN
        LET votetype == Get(fields, row, <<"v","o","t","e","t","y","p","e">>, <<>>)
            v == VotesOf(Get(fields, row, <<"v","o","t","e","s">>, <<"0">>))
        IN
        [office    |-> Get(fields, row, <<"c","o","n","t","e","s","t","t","i","t","l","e">>, <<>>),
         district  |-> <<>>,
         candidate |-> Get(fields, row, <<"c","a","n","d","i","d","a","t","e"," ","n","a","m","e">>, <<>>),
         party     |-> Get(fields, row, <<"p","a","r","t","y"," ","n","a","m","e">>, <<>>),
         votes     |-> Get(fields, row, <<"v","o","t","e","s">>, <<"0">>),
         early_voting |-> IntVal(IF votetype = <<"C">> THEN v ELSE 0),
         election_day |-> IntVal(IF votetype \in {<<"E">>, <<"P">>} THEN v ELSE 0),
         provisional  |-> IntVal(IF votetype = <<"A">> THEN v ELSE 0),
         dropped   |-> FALSE]
    ELSE IF layout = "race" THEN
        LET cand_id == Get(fields, row, <<"c","a","n","d","i","d","a","t","e","_","i","d">>, <<>>) IN
        [office    |-> Get(fields, row, <<"r","a","c","e">>, <<>>),
         district  |-> <<>>,
         candidate |-> Get(fields, row, <<"c","a","n","d","i","d","a","t","e">>, <<>>),
         party     |-> <<>>,
         votes     |-> Get(fields, row, <<"c","o","u","n","t">>, <<"0">>),
         early_voting |-> StrVal(<<>>), election_day |-> StrVal(<<>>),
         provisional  |-> StrVal(<<>>),
         dropped   |-> cand_id # NoneVal /\ IntOf(cand_id).ok /\ IntOf(cand_id).val >= 999990]
    ELSE IF layout = "pinal" THEN
        LET named(n) == CHOOSE i \in 1..Len(fields) :
                            Lower(fields[i]) = n /\ \A j \in 1..(i - 1) : Lower(fields[j]) # n
        IN
        [office    |-> Get(fields, row, fields[named(<<"c","o","n","t","e","s","t","_","n","a","m","e">>)], <<>>),
         district  |-> <<>>,
         candidate |-> Get(fields, row, fields[named(<<"c","h","o","i","c","e","_","n","a","m","e">>)], <<>>),
         party     |-> Get(fields, row, <<"p","a","r","t","y","_","n","a","m","e">>, <<>>),
         votes     |-> Get(fields, row, fields[named(<<"v","o","t","e","_","t","o","t","a","l">>)], <<"0">>),
         early_voting |-> CellVal(Get(fields, row, <<"e","a","r","l","y","_","v","o","t","e","s">>, <<>>)),
         election_day |-> CellVal(Get(fields, row, <<"p","o","l","l","i","n","g","_","p","l","a","c","e","_","v","o","t","e","s">>, <<>>)),
         provisional  |-> CellVal(Get(fields, row, <<"p","r","o","v","i","s","i","o","n","a","l","_","v","o","t","e","s">>, <<>>)),
         dropped   |-> FALSE]
    ELSE
        [office    |-> Get(fields, row, <<"o","f","f","i","c","e">>, <<>>),
         district  |-> Get(fields, row, <<"d","i","s","t","r","i","c","t">>, <<>>),
         candidate |-> Get(fields, row, <<"c","a","n","d","i","d","a","t","e">>, <<>>),
         party     |-> Get(fields, row, <<"p","a","r","t","y">>, <<>>),
         votes     |-> Get(fields, row, <<"v","o","t","e","s">>, <<"0">>),
         early_voting |-> CellVal(Get(fields, row, <<"e","a","r","l","y","_","v","o","t","i","n","g">>, <<>>)),
         election_day |-> CellVal(Get(fields, row, <<"e","l","e","c","t","i","o","n","_","d","a","y">>, <<>>)),
         provisional  |-> CellVal(Get(fields, row, <<"p","r","o","v","i","s","i","o","n","a","l">>, <<>>)),
         dropped   |-> FALSE]

\* the loop body without the is_metadata_row test
OutcomeOfKeepingLabels(c) ==
    IF c.dropped THEN "skip"
    ELSE IF c.office = NoneVal \/ c.district = NoneVal THEN "raise"
    ELSE IF ~is_school_board_race(c.office, c.district) THEN "skip"
    ELSE IF c.candidate = NoneVal THEN "raise"
    ELSE IF VotesRaise(c.votes) THEN "raise"
    ELSE IF VotesOf(c.votes) <= 0 THEN "skip"
    ELSE "keep"

\* What the loop body of extract_records does with one row: "raise" when the
\* office or district is None (office + " " + district is a TypeError), the
\* candidate of an accepted race is None (None has no upper()) or the count
\* is an infinity (OverflowError, which the try does not catch), "skip" when
\* the row is dropped, "keep" when a record is appended.
OutcomeOf(c) ==
    IF c.dropped THEN "skip"
    ELSE IF c.office = NoneVal \/ c.district = NoneVal THEN "raise"
    ELSE IF ~is_school_board_race(c.office, c.district) THEN "skip"
    ELSE IF c.candidate = NoneVal THEN "raise"
    ELSE IF is_metadata_row(c.candidate) THEN "skip"
    ELSE IF VotesRaise(c.votes) THEN "raise"
    ELSE IF VotesOf(c.votes) <= 0 THEN "skip"
    ELSE "keep"

RowOutcome(layout, fields, row) == OutcomeOf(RowCells(layout, fields, row))

\* records.append({...}) for the cells c of a row
RecordOf(c, county_name) ==
    [county |-> county_name, office |-> c.office, district |-> c.district,
     candidate |-> c.candidate, party |-> c.party, total_votes |-> VotesOf(c.votes),
     early_voting |-> c.early_voting, election_day |-> c.election_day,
     provisional |-> c.provisional]

\* the record appended for a row that is kept
RowRecord(layout, fields, row, county_name) ==
    RecordOf(RowCells(layout, fields, row), county_name)

\* extract_records(csv_text, county_name, year, county_lower): the records of
\* the rows kept, in order; raised when a row raises (the exception is not
\* caught: it ends main).  An unknown header gives no records.
\* the rows i with outcomes[i] = "keep", in order
KeptRows(outcomes) ==
    SelectSeq([i \in 1..Len(outcomes) |-> i], LAMBDA i : outcomes[i] = "keep")

\* the records of the rows idx
RecordsAt(idx, layout, file, county_name) ==
    [j \in 1..Len(idx) |-> RowRecord(layout, file.fields, file.rows[idx[j]], county_name)]

\* the loop over the rows, outcomes[i] being what the loop body does with row i
ExtractedBy(outcomes, layout, file, county_name) ==
    [raised  |-> \E i \in 1..Len(outcomes) : outcomes[i] = "raise",
     records |-> RecordsAt(KeptRows(outcomes), layout, file, county_name)]

\* the if/elif chain on the header: no reader loop without a known layout
ExtractedIn(layout, file, county_name) ==
    IF layout \in {"none", "unknown"} THEN [raised |-> FALSE, records |-> <<>>]
    ELSE ExtractedBy([i \in 1..Len(file.rows) |->
                         RowOutcome(layout, file.fields, file.rows[i])],
                     layout, file, county_name)

extract_records(file, county_name) ==
    ExtractedIn(LayoutOf(file.fields), file, county_name)

(***************************************************************************)
(* main: constants, formatting and the tables of Load and Plan             *)
(***************************************************************************)
DigitChars == <<"0","1","2","3","4","5","6","7","8","9">>

RECURSIVE Str(_)
\* str(n) for an int n >= 0
Str(n) == IF n < 10 THEN <<DigitChars[n + 1]>>
          ELSE Str(n \div 10) \o <<DigitChars[(n % 10) + 1]>>

\* f"{n}.0"
FloatText(n) == Str(n) \o <<".","0">>

\* for year in [2014, 2016, 2018, 2020, 2022, 2024]
ElectionYears == <<2014, 2016, 2018, 2020, 2022, 2024>>

ELECTION_DATES ==
    (2014 :> <<"2","0","1","4","-","1","1","-","0","4">>) @@ (2016 :> <<"2","0","1","6","-","1","1","-","0","8">>) @@ (2018 :> <<"2","0","1","8","-","1","1","-","0","6">>) @@
    (2020 :> <<"2","0","2","0","-","1","1","-","0","3">>) @@ (2022 :> <<"2","0","2","2","-","1","1","-","0","8">>) @@ (2024 :> <<"2","0","2","4","-","1","1","-","0","5">>)

DATE_PREFIXES ==
    (2014 :> <<"2","0","1","4","1","1","0","4">>) @@ (2016 :> <<"2","0","1","6","1","1","0","8">>) @@ (2018 :> <<"2","0","1","8","1","1","0","6">>) @@
    (2020 :> <<"2","0","2","0","1","1","0","3">>) @@ (2022 :> <<"2","0","2","2","1","1","0","8">>) @@ (2024 :> <<"2","0","2","4","1","1","0","5">>)

COUNTY_DISPLAY ==
    (<<"a","p","a","c","h","e">> :> <<"A","p","a","c","h","e">>) @@ (<<"c","o","c","h","i","s","e">> :> <<"C","o","c","h","i","s","e">>) @@
    (<<"c","o","c","o","n","i","n","o">> :> <<"C","o","c","o","n","i","n","o">>) @@ (<<"g","i","l","a">> :> <<"G","i","l","a">>) @@
    (<<"g","r","a","h","a","m">> :> <<"G","r","a","h","a","m">>) @@ (<<"g","r","e","e","n","l","e","e">> :> <<"G","r","e","e","n","l","e","e">>) @@
    (<<"l","a","_","p","a","z">> :> <<"L","a"," ","P","a","z">>) @@ (<<"m","a","r","i","c","o","p","a">> :> <<"M","a","r","i","c","o","p","a">>) @@
    (<<"m","o","h","a","v","e">> :> <<"M","o","h","a","v","e">>) @@ (<<"n","a","v","a","j","o">> :> <<"N","a","v","a","j","o">>) @@
    (<<"p","i","m","a">> :> <<"P","i","m","a">>) @@ (<<"p","i","n","a","l">> :> <<"P","i","n","a","l">>) @@
    (<<"s","a","n","t","a","_","c","r","u","z">> :> <<"S","a","n","t","a"," ","C","r","u","z">>) @@ (<<"y","a","v","a","p","a","i">> :> <<"Y","a","v","a","p","a","i">>) @@
    (<<"y","u","m","a">> :> <<"Y","u","m","a">>)

\* get_county_url(year, county_lower): the directory and the file name under
\* BASE_URL
get_county_url(year, county_lower) ==
    LET c == IF year = 2024 /\ county_lower = <<"l","a","_","p","a","z">> THEN <<"l","a","%","2","0","p","a","z">>
             ELSE IF year = 2024 /\ county_lower = <<"s","a","n","t","a","_","c","r","u","z">> THEN <<"s","a","n","t","a","%","2","0","c","r","u","z">>
             ELSE county_lower
        dir == IF year = 2024 THEN <<"2","0","2","4","/","G","e","n","e","r","a","l">>
               ELSE IF year = 2014 THEN <<"2","0","1","4">>
               ELSE Str(year) \o <<"/","c","o","u","n","t","i","e","s">>
    IN  <<dir, DATE_PREFIXES[year] \o <<"_","_","a","z","_","_","g","e","n","e","r","a","l","_","_">> \o c \o <<"_","_","p","r","e","c","i","n","c","t",".","c","s","v">>>>

IsLetter(c) == c \in UpperLetters \cup LowerLetters

\* text.title(): a letter after a non-letter in upper case, the others in lower
Title(text) ==
    [i \in 1..Len(text) |->
        IF ~IsLetter(text[i]) THEN text[i]
        ELSE IF i = 1 \/ ~IsLetter(text[i - 1]) THEN Upper(<<text[i]>>)[1]
        ELSE Lower(<<text[i]>>)[1]]

\* county_display = COUNTY_DISPLAY.get(county_lower, county_lower.title())
CountyDisplay(county_lower) ==
    IF county_lower \in DOMAIN COUNTY_DISPLAY THEN COUNTY_DISPLAY[county_lower]
    ELSE Title(county_lower)

\* county_lower = county.lower().replace(' ', '_')
CountyLower(county) == ReplaceChar(Lower(county), " ", "_")

\* The columns of the authoritative table (fieldnames); a row of it, and a
\* staged row, is a record of str values with these fields.
EmptyRow ==
    [year |-> <<>>, election_date |-> <<>>, election_type |-> <<>>, county |-> <<>>,
     school_district |-> <<>>, ctds_id |-> <<>>, nces_leaid |-> <<>>,
     ccd_lea_name |-> <<>>, district |-> <<>>, office |-> <<>>, candidate |-> <<>>,
     party |-> <<>>, total_votes |-> <<>>, early_voting |-> <<>>,
     election_day |-> <<>>, provisional |-> <<>>, winner |-> <<>>,
     num_precincts |-> <<>>]

\* the rows i of a table with r['ctds_id'] not empty
WithId(rows) == {i \in 1..Len(rows) : rows[i].ctds_id # <<>>}

\* the rows i with r['ctds_id'] and r['county'] not empty
WithIdAndCounty(rows) == {i \in WithId(rows) : rows[i].county # <<>>}

\* int(float(r['ctds_id'])) or int(float(r['year'])) raises ValueError
LoadRaises(rows) ==
    \E i \in WithId(rows) : ~IntFloat(rows[i].ctds_id).ok \/ ~IntFloat(rows[i].year).ok

\* str(int(float(cell))): the identifier or the year a cell names, whether it
\* is written "4470" or "4470.0"
CellNumber(cell) == IntFloat(cell).val

\* existing_pairs built from the cells as they are written: a cell names an
\* identifier or a year only when it is written as an integer
ExistingPairsRaw(rows) ==
    LET Raw(cell) == IF IntOf(cell).ok THEN IntOf(cell).val ELSE 0 - 1
    IN  {<<Raw(rows[i].ctds_id), Raw(rows[i].year)>> : i \in WithId(rows)}

\* existing_pairs after the loop over the table
ExistingPairs(rows) ==
    {<<CellNumber(rows[i].ctds_id), CellNumber(rows[i].year)>> : i \in WithId(rows)}

\* ccd_districts: the rows of the directory with FIPST '04' and LEA_TYPE '1',
\* by ST_LEAID without 'AZ-'; a later row replaces an earlier one
CcdDistricts(ccd_rows) ==
    LET use  == {i \in 1..Len(ccd_rows) :
                    ccd_rows[i].FIPST = <<"0","4">> /\ ccd_rows[i].LEA_TYPE = <<"1">>}
        KeyAt(i) == ReSub(Lit(<<"A","Z","-">>), <<>>, 0, ccd_rows[i].ST_LEAID)
        ks   == {KeyAt(i) : i \in use}
    IN  [k \in ks |->
            LET last == CHOOSE i \in use : KeyAt(i) = k /\ \A j \in use : KeyAt(j) = k => j <= i
            IN  [lea_name |-> ccd_rows[last].LEA_NAME, leaid |-> ccd_rows[last].LEAID]]

\* ctds_county: the county of the last row of each identifier
CtdsCounty(rows) ==
    LET use == WithIdAndCounty(rows)
        ids == {CellNumber(rows[i].ctds_id) : i \in use}
    IN  [c \in ids |->
            LET last == CHOOSE i \in use :
                            /\ CellNumber(rows[i].ctds_id) = c
                            /\ \A j \in use : CellNumber(rows[j].ctds_id) = c => j <= i
            IN  rows[last].county]

\* ctds_names: the school_district values of the rows of each identifier
CtdsNames(rows) ==
    LET use == WithIdAndCounty(rows)
        ids == {CellNumber(rows[i].ctds_id) : i \in use}
    IN  [c \in ids |-> {rows[i].school_district :
                            i \in {j \in use : CellNumber(rows[j].ctds_id) = c}}]

\* the lists of the elements of a set, each once
ListsOf(set) ==
    {l \in [1..Cardinality(set) -> set] : \A i, j \in 1..Cardinality(set) : l[i] = l[j] => i = j}

\* The orders in which the sets of ctds_names may be iterated: a set of str
\* is iterated in the order of the hashes of its elements, which Python
\* draws anew for every process.
NameOrders(names_of) ==
    {o \in [DOMAIN names_of -> UNION {ListsOf(names_of[c]) : c \in DOMAIN names_of}] :
        \A c \in DOMAIN names_of : o[c] \in ListsOf(names_of[c])}

\* a plan that asks for every gap under every county the table names
GapsUnderEveryCounty(county_of, pairs) ==
    [k \in {<<CountyLower(county_of[c]), ElectionYears[i]>> :
               c \in DOMAIN county_of, i \in 1..Len(ElectionYears)} |->
        {c \in DOMAIN county_of : <<c, k[2]>> \notin pairs}]

\* the plan that asks for every pair of the known identifiers, filled or not
GapsOfEveryPair(county_of, pairs) ==
    [k \in {<<CountyLower(county_of[c]), ElectionYears[i]>> :
               c \in DOMAIN county_of, i \in 1..Len(ElectionYears)} |->
        {c \in DOMAIN county_of : CountyLower(county_of[c]) = k[1]}]

\* gaps_by_county_year: for each known identifier and each year, the identifier
\* is needed under (county_lower, year) when (ctds, year) is not an existing pair
GapsByCountyYear(county_of, pairs) ==
    LET years == {ElectionYears[i] : i \in 1..Len(ElectionYears)}
        gap  == {<<c, y>> \in (DOMAIN county_of) \X years : <<c, y>> \notin pairs}
        KeyFor(g) == <<CountyLower(county_of[g[1]]), g[2]>>
    IN  [k \in {KeyFor(g) : g \in gap} |-> {g[1] : g \in {h \in gap : KeyFor(h) = k}}]

\* (county_lower, year) tuples as sorted() orders them
GapKeyLess(a, b) == StrLess(a[1], b[1]) \/ (a[1] = b[1] /\ a[2] < b[2])

RECURSIVE SortGapKeys(_)
\* sorted(gaps_by_county_year.items()): the keys in increasing order
SortGapKeys(ks) ==
    IF ks = {} THEN <<>>
    ELSE LET least == CHOOSE k \in ks : \A o \in ks : o = k \/ GapKeyLess(k, o)
         IN  <<least>> \o SortGapKeys(ks \ {least})

(***************************************************************************)
(* main: one iteration of the loop over the (county, year) files           *)
(***************************************************************************)
\* ctds = match_to_ctds(cand['office'], cand['district'], county_display) for
\* each candidate
ResultOfCandidates(cands, county_display) ==
    [raised     |-> FALSE,
     candidates |-> cands,
     ctds       |-> [j \in 1..Len(cands) |->
                        match_to_ctds(cands[j].office, cands[j].district, county_display)]]

\* e is what extract_records gave
ResultOfRecords(e, county_display) ==
    IF e.raised \/ AggregateRaises(e.records)
    THEN [raised |-> TRUE, candidates |-> <<>>, ctds |-> <<>>]
    ELSE ResultOfCandidates(aggregate_to_candidates(e.records), county_display)

\* What the loop body computes from the text of one file: the precinct
\* records, the candidates aggregated from them and, for each candidate, what
\* match_to_ctds returns.  raised: extract_records or aggregate_to_candidates
\* raised.
FileResult(file, county_display) ==
    ResultOfRecords(extract_records(file, county_display), county_display)

\* the test without the missing set: any candidate that resolves
IsMatchedAnywhere(res, needed, j) == res.ctds[j] # <<>>

\* `if ctds and ctds in needed_ctds`: the candidates appended to matched
IsMatched(res, needed, j) == res.ctds[j] # <<>> /\ res.ctds[j][1] \in needed

RECURSIVE MatchedIds(_, _, _)
\* the keys of matched in the order of matched.items(): by first candidate
MatchedIds(res, needed, j) ==
    IF j > Len(res.candidates) THEN <<>>
    ELSE LET rest == MatchedIds(res, needed, j + 1)
             c    == res.ctds[j][1]
             NotC(x) == x # c
         IN  IF IsMatched(res, needed, j) THEN <<c>> \o SelectSeq(rest, NotC)
             ELSE rest

\* matched[ctds]: the candidates of one identifier, in order
CandList(res, ctds) ==
    LET idx == SelectSeq([j \in 1..Len(res.candidates) |-> j],
                         LAMBDA j : res.ctds[j] = <<ctds>>)
    IN  [n \in 1..Len(idx) |-> res.candidates[idx[n]]]

\* ccd_districts.get(ctds, {}).get(field, '')
CcdField(ccd, ctds, field) ==
    IF Str(ctds) \in DOMAIN ccd THEN ccd[Str(ctds)][field] ELSE <<>>

\* names_of[ctds] is the set ctds_names[ctds] as a list in its iteration
\* order.  sorted(ctds_names[ctds], key=len)[-1]: the sort is stable, so of
\* the longest names the one that comes last in the iteration order;
\* lea_name without observed names
DisplayName(names_of, ccd, ctds) ==
    IF ctds \in DOMAIN names_of /\ names_of[ctds] # <<>>
    THEN names_of[ctds][CHOOSE i \in 1..Len(names_of[ctds]) :
                            \A j \in 1..Len(names_of[ctds]) :
                                \/ Len(names_of[ctds][j]) < Len(names_of[ctds][i])
                                \/ (Len(names_of[ctds][j]) = Len(names_of[ctds][i]) /\ j <= i)]
    ELSE CcdField(ccd, ctds, "lea_name")

\* f"{cand[field]}.0" if cand[field] else ''
SubTotalText(x) == IF x # <<>> /\ x[1] # 0 THEN FloatText(x[1]) ELSE <<>>

\* the row of a candidate whose ctds_id is left empty
StagedRowNoId(year, county_display, school_district, ctds, ccd, cand) ==
    [EmptyRow EXCEPT
        !.year = FloatText(year),
        !.election_date = ELECTION_DATES[year],
        !.election_type = <<"g","e","n","e","r","a","l">>,
        !.county = county_display,
        !.school_district = school_district,
        !.office = cand.office,
        !.candidate = cand.candidate,
        !.total_votes = FloatText(cand.total_votes)]

\* the row synthesized for one candidate of a matched identifier
StagedRow(year, county_display, school_district, ctds, ccd, cand) ==
    LET leaid == CcdField(ccd, ctds, "leaid") IN
    [EmptyRow EXCEPT
        !.year = FloatText(year),
        !.election_date = ELECTION_DATES[year],
        !.election_type = <<"g","e","n","e","r","a","l">>,
        !.county = county_display,
        !.school_district = school_district,
        !.ctds_id = FloatText(ctds),
        !.nces_leaid = IF leaid # <<>> THEN leaid \o <<".","0">> ELSE <<>>,
        !.ccd_lea_name = CcdField(ccd, ctds, "lea_name"),
        !.district = <<>>,
        !.office = IF cand.district # <<>>
                   THEN cand.office \o <<" ","-"," ">> \o cand.district ELSE cand.office,
        !.candidate = cand.candidate,
        !.party = IF cand.party = NoneVal THEN <<>> ELSE cand.party,
        !.total_votes = FloatText(cand.total_votes),
        !.early_voting = SubTotalText(cand.early_voting),
        !.election_day = SubTotalText(cand.election_day),
        !.provisional = SubTotalText(cand.provisional),
        !.winner = <<>>,
        !.num_precincts = <<>>]

\* lines 706-711 for candidate j: appended to matched[ctds], passed over
\* because the pair exists, appended to unmatched, or none of the three
\* branches is taken
CandidateOutcome(res, needed, year, pairs, j) ==
    IF IsMatched(res, needed, j) THEN "matched"
    ELSE IF res.ctds[j] # <<>> /\ <<res.ctds[j][1], year>> \in pairs THEN "skipped"
    ELSE IF res.ctds[j] = <<>> THEN "unmatched"
    ELSE "none"

\* the identifiers of matched that pass the safety check, in order
Materialized(res, needed, year, pairs) ==
    SelectSeq(MatchedIds(res, needed, 1), LAMBDA c : <<c, year>> \notin pairs)

RECURSIVE RowsFor(_, _, _, _, _, _)
\* the rows appended to new_rows for the identifiers ids, pick[c] being the
\* display name of identifier c
RowsFor(ids, pick, res, year, county_display, ccd) ==
    IF ids = <<>> THEN <<>>
    ELSE LET c  == Head(ids)
             cl == CandList(res, c)
         IN  [n \in 1..Len(cl) |->
                 StagedRow(year, county_display, pick[c], c, ccd, cl[n])]
             \o RowsFor(Tail(ids), pick, res, year, county_display, ccd)

\* log entries that count every candidate of the file
DetailsForWholeFile(ids, res, year, county_display, ccd) ==
    [n \in 1..Len(ids) |->
        [ctds |-> ids[n], year |-> year, county |-> county_display,
         lea_name |-> CcdField(ccd, ids[n], "lea_name"),
         n_candidates |-> Len(res.candidates)]]

\* the entries appended to match_details for the identifiers ids
DetailsFor(ids, res, year, county_display, ccd) ==
    [n \in 1..Len(ids) |->
        [ctds |-> ids[n], year |-> year, county |-> county_display,
         lea_name |-> CcdField(ccd, ids[n], "lea_name"),
         n_candidates |-> Len(CandList(res, ids[n]))]]

(***************************************************************************)
(* populate_winners.py: is_real_candidate and the two passes of main       *)
(***************************************************************************)
\* the characters `.` matches, of those the model's texts can hold
AnyChar ==
    LowerLetters \cup UpperLetters \cup Digits
    \cup {" ", "\t", "-", "_", ".", ",", "'", "#", "/", "&", "(", ")"}

\* a character set taken optionally
OptOf(cs) == [kind |-> "set", s |-> cs, lo |-> 0, many |-> FALSE, str |-> <<>>]

\* The patterns of NON_CANDIDATE_PATTERNS in order; start: the pattern
\* begins with ^.
NON_CANDIDATE_PATTERNS == <<
    [start |-> FALSE, items |-> Lit(<<"W","R","I","T","E">>) \o <<OptOf(AnyChar)>> \o Lit(<<"I","N">>)],
    [start |-> FALSE, items |-> Lit(<<"N","O"," ","C","A","N","D","I","D","A","T","E">>)],
    [start |-> FALSE, items |-> Lit(<<"O","V","E","R">>) \o <<OptOf(WhiteSpace)>> \o Lit(<<"V","O","T","E">>)],
    [start |-> FALSE, items |-> Lit(<<"U","N","D","E","R">>) \o <<OptOf(WhiteSpace)>> \o Lit(<<"V","O","T","E">>)],
    [start |-> FALSE, items |-> Lit(<<"B","U","D","G","E","T"," ","I","N","C","R","E","A","S","E">>)],
    [start |-> FALSE, items |-> Lit(<<"B","U","D","G","E","T"," ","O","V","E","R","R","I","D","E">>)],
    [start |-> FALSE, items |-> Lit(<<"B","O","N","D"," ","E","L","E","C","T","I","O","N">>)],
    [start |-> FALSE, items |-> Lit(<<"B","O","N","D"," ","A","P","P","R","O","V","A","L">>)],
    [start |-> FALSE, items |-> Lit(<<"T","I","M","E","S"," ","C","O","U","N","T","E","D">>)],
    [start |-> FALSE, items |-> Lit(<<"T","I","M","E","S"," ","B","L","A","N","K">>)],
    [start |-> TRUE,  items |-> Lit(<<"T","O","T","A","L"," ","V","O","T","E">>)],
    [start |-> TRUE,  items |-> Lit(<<"T","O","T","A","L","V","O","T","E">>)],
    [start |-> TRUE,  items |-> Lit(<<"N","O","T"," ","A","S","S","I","G","N","E","D">>) \o <<EndS>>] >>

\* pattern.search(t) for one pattern of the alternation
SearchOne(pat, t) ==
    IF pat.start THEN MatchFrom(pat.items, 1, t, 1).ok
    ELSE \E p \in 1..(Len(t) + 1) : MatchFrom(pat.items, 1, t, p).ok

\* NON_CANDIDATE_RE.search(name): the alternation of the patterns, compiled
\* with re.IGNORECASE
NON_CANDIDATE_RE(name) ==
    \E n \in 1..Len(NON_CANDIDATE_PATTERNS) :
        SearchOne(NON_CANDIDATE_PATTERNS[n], Upper(name))

is_real_candidate(name) == ~NON_CANDIDATE_RE(name)

\* the rows i of the summary with a num_seats that is not blank
WithSeats(summary_rows) ==
    {i \in 1..Len(summary_rows) : Strip(summary_rows[i].num_seats) # <<>>}

\* int(float(ns)) raises OverflowError, which `except ValueError` lets through
SeatsRaise(summary_rows) ==
    \E i \in WithSeats(summary_rows) : IntFloat(summary_rows[i].num_seats).overflow

\* seats_lookup after the loop over the summary: by (year, school_district),
\* the num_seats of the last row of the key that int(float()) reads
SeatsLookup(summary_rows) ==
    LET use == {i \in WithSeats(summary_rows) : IntFloat(summary_rows[i].num_seats).ok}
        KeyAt(i) == <<summary_rows[i].year, summary_rows[i].school_district>>
    IN  [k \in {KeyAt(i) : i \in use} |->
            IntFloat(summary_rows[CHOOSE i \in use :
                        KeyAt(i) = k /\ \A j \in use : KeyAt(j) = k => j <= i].num_seats).val]

\* key = (r['year'], r['school_district'])
DistrictYear(r) == <<r.year, r.school_district>>

\* dy_groups[key] for the key of row i
GroupOf(table, i) ==
    {j \in 1..Len(table) : DistrictYear(table[j]) = DistrictYear(table[i])}

\* not rows[i]['winner'].strip()
IsBlank(r) == Strip(r.winner) = <<>>

\* float(rows[i]['total_votes'] or 0); the counts of the model are whole numbers
VotesKey(r) == IF r.total_votes = <<>> THEN 0 ELSE IntFloat(r.total_votes).val

\* the rows of the group of row i that are real candidates
RealOf(table, i) == {j \in GroupOf(table, i) : is_real_candidate(table[j].candidate)}

\* row j comes before row i in sorted(real_indices, key=votes, reverse=True):
\* the sort is stable
SortsBefore(table, j, i) ==
    \/ VotesKey(table[j]) > VotesKey(table[i])
    \/ (VotesKey(table[j]) = VotesKey(table[i]) /\ j < i)

\* a selection that takes the candidates with the fewest votes
BottomN(table, real, seats) ==
    {i \in real : Cardinality({j \in real : SortsBefore(table, i, j)}) < seats}

\* top_n = set(real_sorted[:seats]); a negative seats counts from the end
TopN(table, real, seats) ==
    {i \in real :
        Cardinality({j \in real : SortsBefore(table, j, i)})
            < (IF seats >= 0 THEN seats ELSE Cardinality(real) + seats)}

\* the group of row i is in PASS 2: no row of it has a winner
IsFullyMissing(table, i) == \A j \in GroupOf(table, i) : IsBlank(table[j])

\* float() of a count raises ValueError in the sort of a PASS 2 group
FillRaises(table, seats_of) ==
    \E i \in 1..Len(table) :
        /\ IsFullyMissing(table, i)
        /\ DistrictYear(table[i]) \in DOMAIN seats_of
        /\ is_real_candidate(table[i].candidate)
        /\ table[i].total_votes # <<>>
        /\ ~IntFloat(table[i].total_votes).ok
        /\ ~IntFloat(table[i].total_votes).overflow

\* PASS 2 for row i, a real candidate of a group whose seats are known
Inferred(table, seats_of, i) ==
    IF i \in TopN(table, RealOf(table, i), seats_of[DistrictYear(table[i])])
    THEN <<"Y","E","S">> ELSE <<"N","O">>

\* a loop that fills NO into every blank row of a partial group
WinnerAfterAnyRow(table, seats_of, i) ==
    IF ~IsBlank(table[i]) THEN table[i].winner
    ELSE IF ~IsFullyMissing(table, i) THEN <<"N","O">>
    ELSE IF DistrictYear(table[i]) \notin DOMAIN seats_of THEN table[i].winner
    ELSE IF ~is_real_candidate(table[i].candidate) THEN table[i].winner
    ELSE Inferred(table, seats_of, i)

\* rows[i]['winner'] after the loop over dy_groups (lines 81-130): a row
\* with a winner is left alone (its group is complete or partial); a blank
\* row of a partial group gets NO if it is a real candidate (PASS 1); in a
\* group without any winner whose seats are known the real candidates get
\* YES or NO (PASS 2)
WinnerAfter(table, seats_of, i) ==
    IF ~IsBlank(table[i]) THEN table[i].winner
    ELSE IF ~is_real_candidate(table[i].candidate) THEN table[i].winner
    ELSE IF ~IsFullyMissing(table, i) THEN <<"N","O">>
    ELSE IF DistrictYear(table[i]) \notin DOMAIN seats_of THEN table[i].winner
    ELSE Inferred(table, seats_of, i)

\* rows after the loop
Filled(table, seats_of) ==
    [i \in 1..Len(table) |-> [table[i] EXCEPT !.winner = WinnerAfter(table, seats_of, i)]]

(***************************************************************************)
(* State                                                                   *)
(***************************************************************************)
VARIABLES
    race_office,       \* the office text given to the classifier and the resolver
    race_district,     \* the district text given to them
    race_pc,           \* "idle", "input", "classified" or "resolved"
    accepted,          \* what is_school_board_race returned
    resolved,          \* what match_to_ctds returned: <<>> is None
    precinct_records,  \* the list given to aggregate_to_candidates
    agg_pc,            \* "idle", "input" or "done"
    candidates,        \* what aggregate_to_candidates returned
    csv_file,          \* the file given to extract_records: header and rows
    extract_pc,        \* "idle", "input" or "done"
    extracted,         \* what extract_records returned
    master,            \* the rows of MASTER_CSV, the authoritative table
    source,            \* the repository: the file behind each URL that has one
    available,         \* whether MASTER_CSV and CCD_CSV can be opened
    which_run,         \* "none", or "first" or "second": which run of main this is
    promoted,          \* the staged rows of the first run were appended to master
    pc,                \* where main is: "idle", "start", "loaded", "planned",
                       \* "done", or "crashed" after an exception
    existing_rows,
    existing_pairs,    \* pairs <<ctds, year>>
    ccd_districts,
    ctds_county,
    ctds_names,
    gaps_by_county_year,
    todo,              \* the (county_lower, year) keys the loop has yet to take
    new_rows,
    filled_pairs,
    match_details,
    staging_file,      \* openelections_new_rows.csv: <<>> or <<its rows>>
    match_log,         \* openelections_match_log.json: <<>> or <<its entries>>
    pw_master,         \* the rows of MASTER as populate_winners finds and leaves them
    pw_summary,        \* the rows of SUMMARY
    pw_pc,             \* "idle", "start", "loaded", "filled", "done" or "crashed"
    pw_run,            \* 0, or 1 or 2: which run of populate_winners this is
    seats_lookup,
    pw_rows,           \* rows, the table in memory
    retries,           \* the argument of fetch
    network,           \* what urlopen does at the 1st, 2nd, ... call
    fetch_pc,          \* "idle", "calling" or "returned"
    attempt,
    calls,             \* how many times urlopen was called
    slept,             \* the arguments of time.sleep in order
    fetched            \* <<>>, or <<what fetch returned>>

raceVars == <<race_office, race_district, race_pc, accepted, resolved>>
aggVars  == <<precinct_records, agg_pc, candidates>>
extractVars == <<csv_file, extract_pc, extracted>>
inputVars  == <<master, source, available>>
loadedVars == <<existing_rows, existing_pairs, ccd_districts, ctds_county, ctds_names>>
loopVars   == <<new_rows, filled_pairs, match_details>>
fileVars   == <<staging_file, match_log>>
mainVars == <<inputVars, which_run, promoted, pc, loadedVars, gaps_by_county_year, todo,
              loopVars, fileVars>>
winnerVars == <<pw_master, pw_summary, pw_pc, pw_run, seats_lookup, pw_rows>>
fetchVars == <<retries, network, fetch_pc, attempt, calls, slept, fetched>>
vars     == <<raceVars, aggVars, extractVars, mainVars, winnerVars, fetchVars>>

RaceIdle ==
    /\ race_office = <<>> /\ race_district = <<>> /\ race_pc = "idle"
    /\ accepted = FALSE /\ resolved = <<>>

AggIdle == precinct_records = <<>> /\ agg_pc = "idle" /\ candidates = <<>>

ExtractIdle == csv_file = <<>> /\ extract_pc = "idle" /\ extracted = <<>>

\* main's memory before Load
Fresh ==
    /\ existing_rows = <<>> /\ existing_pairs = {} /\ ccd_districts = <<>>
    /\ ctds_county = <<>> /\ ctds_names = <<>>
    /\ gaps_by_county_year = <<>> /\ todo = <<>>
    /\ new_rows = <<>> /\ filled_pairs = {} /\ match_details = <<>>

MainIdle ==
    /\ master = <<>> /\ source = <<>> /\ which_run = "none" /\ promoted = FALSE
    /\ available = [master |-> FALSE, ccd |-> FALSE]
    /\ pc = "idle" /\ Fresh
    /\ staging_file = <<>> /\ match_log = <<>>

WinnerIdle ==
    /\ pw_master = <<>> /\ pw_summary = <<>> /\ pw_pc = "idle" /\ pw_run = 0
    /\ seats_lookup = <<>> /\ pw_rows = <<>>

FetchIdle ==
    /\ retries = 0 /\ network = <<>> /\ fetch_pc = "idle" /\ attempt = 0
    /\ calls = 0 /\ slept = <<>> /\ fetched = <<>>

(***************************************************************************)
(* The classifier and the resolver on office and district texts            *)
(***************************************************************************)
\* the longest office text of the model, in words
MaxWords == 2

OfficeWords == <<
    <<"G","O","V","E","R","N","I","N","G"," ","B","O","A","R","D"," ","M","E","M","B","E","R">>, <<"B","O","N","D"," ","Q","U","E","S","T","I","O","N">>, <<"F","I","R","E"," ","D","I","S","T","R","I","C","T"," ","B","O","A","R","D">>,
    <<"C","A","M","P"," ","V","E","R","D","E"," ","U","S","D"," ","#","2","8">>, <<"S","E","D","O","N","A","-","O","A","K"," ","C","R","E","E","K">>, <<"S","C","H","O","O","L","|","D","I","S","T">>,
    <<"A","C","M","E"," ","U","N","I","F","I","E","D">>, <<"(","E","L","E","C","T"," ","2",")">> >>

DistrictTexts == { <<>>, <<"C","A","M","P"," ","V","E","R","D","E"," ","U","S","D"," ","#","2","8">>, <<"C","o","n","c","h","o"," ","E","l","e","m",".">> }

RECURSIVE Phrases(_)
\* the texts of 1..n words of OfficeWords, separated by one space
Phrases(n) ==
    IF n = 0 THEN {}
    ELSE LET words == {OfficeWords[i] : i \in 1..Len(OfficeWords)}
         IN  words \cup {p \o <<" ">> \o w : p \in Phrases(n - 1), w \in words}

OfficeTexts == Phrases(MaxWords)

RaceInit ==
    /\ AggIdle /\ ExtractIdle /\ MainIdle /\ WinnerIdle /\ FetchIdle
    /\ race_office \in OfficeTexts
    /\ race_district \in DistrictTexts
    /\ race_pc = "input"
    /\ accepted = FALSE
    /\ resolved = <<>>

Classify ==
    /\ race_pc = "input"
    /\ accepted' = is_school_board_race(race_office, race_district)
    /\ race_pc' = "classified"
    /\ UNCHANGED <<winnerVars, fetchVars, race_office, race_district, resolved, aggVars, extractVars, mainVars>>

Resolve ==
    /\ race_pc = "input"
    /\ resolved' = match_to_ctds(race_office, race_district, <<>>)
    /\ race_pc' = "resolved"
    /\ UNCHANGED <<winnerVars, fetchVars, race_office, race_district, accepted, aggVars, extractVars, mainVars>>

RaceNext == Classify \/ Resolve

SpecRace == RaceInit /\ [][RaceNext]_vars

(***************************************************************************)
(* The aggregator on lists of precinct records                             *)
(***************************************************************************)
\* the longest list of precinct records of the model
MaxRecords == 3

NoSubTotal == StrVal(<<>>)

\* one precinct's row for one candidate of the race "Governing Board"
Precinct(candidate, votes, early, eday, prov) ==
    [county |-> <<"Y","a","v","a","p","a","i">>, office |-> <<"G","o","v","e","r","n","i","n","g"," ","B","o","a","r","d">>, district |-> <<>>,
     candidate |-> candidate, party |-> <<>>, total_votes |-> votes,
     early_voting |-> early, election_day |-> eday, provisional |-> prov]

RecordChoices ==
    {Precinct(c, v, StrVal(e), NoSubTotal, NoSubTotal) :
        c \in {<<"J","a","n","e"," ","D","o","e">>, <<"J","A","N","E"," ","D","O","E">>}, v \in {120, 85, 40}, e \in {<<>>, <<"0">>, <<"5">>}}
    \cup {Precinct(<<"J","a","n","e"," ","D","o","e">>, 40, IntVal(40), IntVal(0), IntVal(0)),
          Precinct(<<"J","a","n","e"," ","D","o","e">>, 85, StrVal(<<"n","/","a">>), NoSubTotal, StrVal(<<"2",".","0">>))}

RECURSIVE RecordLists(_)
\* the lists of at most n records
RecordLists(n) ==
    IF n = 0 THEN {<<>>}
    ELSE RecordLists(n - 1) \cup
         {Append(l, r) : l \in {x \in RecordLists(n - 1) : Len(x) = n - 1}, r \in RecordChoices}

AggInit ==
    /\ RaceIdle /\ ExtractIdle /\ MainIdle /\ WinnerIdle /\ FetchIdle
    /\ precinct_records \in RecordLists(MaxRecords)
    /\ agg_pc = "input"
    /\ candidates = <<>>

Aggregate ==
    /\ agg_pc = "input"
    /\ candidates' = aggregate_to_candidates(precinct_records)
    /\ agg_pc' = "done"
    /\ UNCHANGED <<winnerVars, fetchVars, precinct_records, raceVars, extractVars, mainVars>>

AggNext == Aggregate

SpecAgg == AggInit /\ [][AggNext]_vars

(***************************************************************************)
(* extract_records on files of every layout                                *)
(***************************************************************************)
\* the most rows a file of the model has
MaxRows == 2

\* the headers of the model's files, one for each branch of the if/elif
\* chain of extract_records, a contest_name header that has the sub-total
\* columns of the 2014 Pinal files, a header of no known layout, and the
\* header of the office layout with capitalised names
SheetHeaders == <<
    <<<<"c","o","n","t","e","s","t","_","n","a","m","e">>, <<"c","h","o","i","c","e","_","n","a","m","e">>, <<"v","o","t","e","_","t","o","t","a","l">>>>,
    <<<<"c","o","n","t","e","s","t","_","n","a","m","e">>, <<"c","h","o","i","c","e","_","n","a","m","e">>, <<"p","a","r","t","y","_","n","a","m","e">>, <<"v","o","t","e","_","t","o","t","a","l">>,
      <<"e","a","r","l","y","_","v","o","t","e","s">>, <<"p","o","l","l","i","n","g","_","p","l","a","c","e","_","v","o","t","e","s">>, <<"p","r","o","v","i","s","i","o","n","a","l","_","v","o","t","e","s">>>>,
    <<<<"c","o","n","t","e","s","t","t","i","t","l","e">>, <<"c","a","n","d","i","d","a","t","e"," ","n","a","m","e">>, <<"p","a","r","t","y"," ","n","a","m","e">>, <<"v","o","t","e","s">>, <<"v","o","t","e","t","y","p","e">>>>,
    <<<<"r","a","c","e","_","i","d">>, <<"r","a","c","e">>, <<"c","a","n","d","i","d","a","t","e","_","i","d">>, <<"c","a","n","d","i","d","a","t","e">>, <<"c","o","u","n","t">>>>,
    <<<<"o","f","f","i","c","e">>, <<"d","i","s","t","r","i","c","t">>, <<"c","a","n","d","i","d","a","t","e">>, <<"p","a","r","t","y">>, <<"v","o","t","e","s">>,
      <<"e","a","r","l","y","_","v","o","t","i","n","g">>, <<"e","l","e","c","t","i","o","n","_","d","a","y">>, <<"p","r","o","v","i","s","i","o","n","a","l">>>>,
    <<<<"p","r","e","c","i","n","c","t">>, <<"n","a","m","e">>, <<"t","o","t","a","l">>>>,
    <<<<"O","f","f","i","c","e">>, <<"D","i","s","t","r","i","c","t">>, <<"C","a","n","d","i","d","a","t","e">>, <<"P","a","r","t","y">>, <<"V","o","t","e","s">>,
      <<"E","a","r","l","y","_","V","o","t","i","n","g">>, <<"E","l","e","c","t","i","o","n","_","D","a","y">>, <<"P","r","o","v","i","s","i","o","n","a","l">>>> >>

\* one line of a canvass: a race, a label, a count, the three sub-totals, the
\* vote type and the candidate number
BallotLine(office_cell, candidate_cell, votes_cell, early, eday, prov, votetype, cand_id) ==
    [office_cell |-> office_cell, candidate_cell |-> candidate_cell,
     votes_cell |-> votes_cell, early |-> early, eday |-> eday, prov |-> prov,
     votetype |-> votetype, cand_id |-> cand_id]

BallotLines == <<
    BallotLine(<<"C","a","m","p"," ","V","e","r","d","e"," ","U","S","D"," ","G","o","v","e","r","n","i","n","g"," ","B","o","a","r","d">>, <<"J","a","n","e"," ","D","o","e">>, <<"1","2","0">>, <<"1","0","0">>, <<"1","5">>, <<"5">>, <<"C">>, <<"1","2">>),
    BallotLine(<<"C","a","m","p"," ","V","e","r","d","e"," ","U","S","D"," ","G","o","v","e","r","n","i","n","g"," ","B","o","a","r","d">>, <<"J","o","h","n"," ","R","o","e">>, <<"3","0",".","0">>, <<>>, <<>>, <<>>, <<"E">>, <<"1","3">>),
    BallotLine(<<"C","a","m","p"," ","V","e","r","d","e"," ","U","S","D"," ","G","o","v","e","r","n","i","n","g"," ","B","o","a","r","d">>, <<" ","w","r","i","t","e","-","i","n"," ">>, <<"3">>, <<"3">>, <<>>, <<>>, <<"C">>, <<"9","9","9","9","9","1">>),
    BallotLine(<<"C","a","m","p"," ","V","e","r","d","e"," ","U","S","D"," ","G","o","v","e","r","n","i","n","g"," ","B","o","a","r","d">>, <<"R","e","g","i","s","t","e","r","e","d"," ","V","o","t","e","r","s">>, <<"9","0","0">>, <<>>, <<>>, <<>>, <<>>, <<>>),
    BallotLine(<<"C","a","m","p"," ","V","e","r","d","e"," ","U","S","D"," ","G","o","v","e","r","n","i","n","g"," ","B","o","a","r","d">>, <<"O","v","e","r"," ","V","o","t","e","s">>, <<"4">>, <<>>, <<"4">>, <<>>, <<"E">>, <<"1","4">>),
    BallotLine(<<"C","a","m","p"," ","V","e","r","d","e"," ","U","S","D"," ","G","o","v","e","r","n","i","n","g"," ","B","o","a","r","d">>, <<"A","n","n"," ","L","e","e">>, <<"a","b","c">>, <<"1">>, <<>>, <<>>, <<"C">>, <<"1","5">>),
    BallotLine(<<"C","a","m","p"," ","V","e","r","d","e"," ","U","S","D"," ","G","o","v","e","r","n","i","n","g"," ","B","o","a","r","d">>, <<"A","n","n"," ","L","e","e">>, <<"0">>, <<"0">>, <<"0">>, <<"0">>, <<"A">>, <<"1","5">>),
    BallotLine(<<"C","a","m","p"," ","V","e","r","d","e"," ","U","S","D"," ","G","o","v","e","r","n","i","n","g"," ","B","o","a","r","d">>, <<"A","n","n"," ","L","e","e">>, <<"-","5">>, <<>>, <<>>, <<>>, <<"C">>, <<"1","5">>),
    BallotLine(<<"C","a","m","p"," ","V","e","r","d","e"," ","U","S","D"," ","G","o","v","e","r","n","i","n","g"," ","B","o","a","r","d">>, <<"A","n","n"," ","L","e","e">>, <<>>, <<"2">>, <<>>, <<>>, <<"C">>, <<"1","5">>),
    BallotLine(<<"S","h","e","r","i","f","f">>, <<"D","a","n"," ","F","o","x">>, <<"9","9">>, <<"9","0">>, <<"9">>, <<>>, <<"C">>, <<"1","6">>),
    BallotLine(<<"C","a","m","p"," ","V","e","r","d","e"," ","U","S","D"," ","G","o","v","e","r","n","i","n","g"," ","B","o","a","r","d">>, <<"B","a","l","l","o","t","s"," ","C","a","s","t">>, <<"1","0","0","0">>, <<>>, <<>>, <<>>, <<"C">>, <<>>),
    BallotLine(<<"C","a","m","p"," ","V","e","r","d","e"," ","U","S","D"," ","G","o","v","e","r","n","i","n","g"," ","B","o","a","r","d">>, <<"A","n","n"," ","L","e","e">>, <<"i","n","f">>, <<>>, <<>>, <<>>, <<"C">>, <<"1","5">>),
    BallotLine(<<"C","a","m","p"," ","V","e","r","d","e"," ","U","S","D"," ","G","o","v","e","r","n","i","n","g"," ","B","o","a","r","d">>, <<"A","n","n"," ","L","e","e">>, <<"1","e","1">>, <<>>, <<>>, <<>>, <<"C">>, <<"1","5">>) >>

\* the cell of a line under the column called name (in lower case)
CellOf(name, line) ==
    IF name \in {<<"c","o","n","t","e","s","t","_","n","a","m","e">>, <<"c","o","n","t","e","s","t","t","i","t","l","e">>, <<"r","a","c","e">>, <<"o","f","f","i","c","e">>} THEN line.office_cell
    ELSE IF name \in {<<"c","h","o","i","c","e","_","n","a","m","e">>, <<"c","a","n","d","i","d","a","t","e"," ","n","a","m","e">>, <<"c","a","n","d","i","d","a","t","e">>, <<"n","a","m","e">>}
         THEN line.candidate_cell
    ELSE IF name \in {<<"v","o","t","e","_","t","o","t","a","l">>, <<"v","o","t","e","s">>, <<"c","o","u","n","t">>, <<"t","o","t","a","l">>} THEN line.votes_cell
    ELSE IF name \in {<<"e","a","r","l","y","_","v","o","t","e","s">>, <<"e","a","r","l","y","_","v","o","t","i","n","g">>} THEN line.early
    ELSE IF name \in {<<"p","o","l","l","i","n","g","_","p","l","a","c","e","_","v","o","t","e","s">>, <<"e","l","e","c","t","i","o","n","_","d","a","y">>} THEN line.eday
    ELSE IF name \in {<<"p","r","o","v","i","s","i","o","n","a","l","_","v","o","t","e","s">>, <<"p","r","o","v","i","s","i","o","n","a","l">>} THEN line.prov
    ELSE IF name = <<"v","o","t","e","t","y","p","e">> THEN line.votetype
    ELSE IF name = <<"c","a","n","d","i","d","a","t","e","_","i","d">> THEN line.cand_id
    ELSE IF name = <<"r","a","c","e","_","i","d">> THEN <<"7">>
    ELSE <<>>

\* the row of a line in a file with the header fields
SheetRow(fields, line) == [i \in 1..Len(fields) |-> CellOf(Lower(fields[i]), line)]

RECURSIVE LineLists(_)
\* the lists of at most n lines
LineLists(n) ==
    IF n = 0 THEN {<<>>}
    ELSE LineLists(n - 1) \cup
         {Append(l, BallotLines[k]) : l \in {x \in LineLists(n - 1) : Len(x) = n - 1},
                                      k \in 1..Len(BallotLines)}

\* the file with the h-th header and the rows of lines
Sheet(h, lines) ==
    [fields |-> SheetHeaders[h],
     rows   |-> [i \in 1..Len(lines) |-> SheetRow(SheetHeaders[h], lines[i])]]

\* the file with its last row cut after n cells: a row with fewer cells than
\* the header
CutLast(file, n) ==
    [fields |-> file.fields,
     rows   |-> [i \in 1..Len(file.rows) |->
                    IF i = Len(file.rows) THEN SubSeq(file.rows[i], 1, n)
                    ELSE file.rows[i]]]

\* every header with every list of lines, whole or with a short last row
Sheets ==
    {Sheet(h, lines) : h \in 1..Len(SheetHeaders), lines \in LineLists(MaxRows)}
    \cup {CutLast(Sheet(h, lines), 1) :
              h \in 1..Len(SheetHeaders), lines \in LineLists(MaxRows) \ {<<>>}}

ExtractInit ==
    /\ RaceIdle /\ AggIdle /\ MainIdle /\ WinnerIdle /\ FetchIdle
    /\ csv_file \in Sheets
    /\ extract_pc = "input"
    /\ extracted = <<>>

\* precinct_records = extract_records(csv_text, county_display, year, county_lower)
Extract ==
    /\ extract_pc = "input"
    /\ extracted' = extract_records(csv_file, <<"Y","a","v","a","p","a","i">>)
    /\ extract_pc' = "done"
    /\ UNCHANGED <<winnerVars, fetchVars, csv_file, raceVars, aggVars, mainVars>>

ExtractNext == Extract

SpecExtract == ExtractInit /\ [][ExtractNext]_vars

(***************************************************************************)
(* main: the gap-fill pipeline on a table and a repository                 *)
(***************************************************************************)
\* the most (identifier, year) pairs a table of the model lacks
MaxMissing == 2

\* the districts of the model's tables: identifier, county, observed names
ModelIds == <<4470, 4160>>

CountyOfId(c) == IF c = 4470 THEN <<"Y","a","v","a","p","a","i">> ELSE <<"A","p","a","c","h","e">>

NameOfId(c, y) ==
    IF c = 4160 THEN <<"C","o","n","c","h","o"," ","E","l","e","m","e","n","t","a","r","y"," ","D","i","s","t","r","i","c","t">>
    ELSE IF y = 2014 THEN <<"C","a","m","p"," ","V","e","r","d","e"," ","U","S","D">> ELSE <<"C","a","m","p"," ","V","e","r","d","e"," ","U","n","i","f","i","e","d">>

\* the spellings of the name of 4470 in a table that has it with and without
\* capitals: as long as each other
SpellingOfId(c, y) ==
    IF c = 4160 THEN <<"C","o","n","c","h","o"," ","E","l","e","m","e","n","t","a","r","y"," ","D","i","s","t","r","i","c","t">>
    ELSE IF y = 2014 THEN <<"C","a","m","p"," ","V","e","r","d","e"," ","U","S","D">> ELSE <<"C","A","M","P"," ","V","E","R","D","E"," ","U","S","D">>

\* A row of the table for identifier c and year y.  "floats" writes the
\* numbers as pandas does ("4470.0"), "ints" as integers; in "nocounty" the
\* rows of 4470 have no county, in "noname" they have no school_district, in
\* "spellings" they have two spellings of one name, in "moved" the row of
\* 4470 for 2014 names another county than its later rows.
MasterRow(c, y, flavour) ==
    [EmptyRow EXCEPT
        !.year = IF flavour = "ints" THEN Str(y) ELSE FloatText(y),
        !.ctds_id = IF flavour = "ints" THEN Str(c) ELSE FloatText(c),
        !.county = IF flavour = "nocounty" /\ c = 4470 THEN <<>>
                   ELSE IF flavour = "moved" /\ c = 4470 /\ y = 2014 THEN <<"A","p","a","c","h","e">>
                   ELSE CountyOfId(c),
        !.school_district = IF flavour = "noname" /\ c = 4470 THEN <<>>
                            ELSE IF flavour = "spellings" THEN SpellingOfId(c, y)
                            ELSE NameOfId(c, y),
        !.election_type = <<"g","e","n","e","r","a","l">>,
        !.candidate = <<"P","a","t"," ","K","i","m">>,
        !.total_votes = <<"1","0","0",".","0">>]

AllPairs ==
    [n \in 1..(Len(ModelIds) * Len(ElectionYears)) |->
        <<ModelIds[((n - 1) \div Len(ElectionYears)) + 1],
          ElectionYears[((n - 1) % Len(ElectionYears)) + 1]>>]

\* the table with a row for every year of the identifiers in known but the
\* pairs in missing
TableOf(known, missing, flavour) ==
    LET have == SelectSeq(AllPairs, LAMBDA q : q[1] \in known /\ q \notin missing)
    IN  [n \in 1..Len(have) |-> MasterRow(have[n][1], have[n][2], flavour)]

\* the shapes of the model's tables: the identifiers a table knows and the
\* pairs of them it lacks
TableShapes ==
    LET years == {ElectionYears[i] : i \in 1..Len(ElectionYears)}
        ids   == {ModelIds[i] : i \in 1..Len(ModelIds)}
    IN  {km \in (SUBSET ids) \X (SUBSET (ids \X years)) :
            /\ Cardinality(km[2]) <= MaxMissing
            /\ \A q \in km[2] : q[1] \in km[1]}

TableFlavours == {"floats", "ints", "nocounty", "noname", "spellings", "moved"}

\* the tables of the model: written with floats in every shape, in the other
\* flavours in the shapes that lack at most one pair
TableChoices ==
    {<<km[1], km[2], "floats">> : km \in TableShapes}
    \cup {<<km[1], km[2], flavour>> :
              km \in {s \in TableShapes : Cardinality(s[2]) <= 1},
              flavour \in TableFlavours \ {"floats"}}

\* the cross-reference directory (CCD_CSV)
CcdDirectory == <<
    [FIPST |-> <<"0","4">>, LEA_TYPE |-> <<"1">>, ST_LEAID |-> <<"A","Z","-","4","4","7","0">>,
     LEA_NAME |-> <<"C","a","m","p"," ","V","e","r","d","e"," ","U","n","i","f","i","e","d"," ","D","i","s","t","r","i","c","t">>, LEAID |-> <<"0","4","0","1","5","7","0">>],
    [FIPST |-> <<"0","4">>, LEA_TYPE |-> <<"2">>, ST_LEAID |-> <<"A","Z","-","4","1","6","0">>,
     LEA_NAME |-> <<"C","o","n","c","h","o"," ","E","l","e","m","e","n","t","a","r","y"," ","D","i","s","t","r","i","c","t">>, LEAID |-> <<"0","4","0","2","1","6","0">>],
    [FIPST |-> <<"0","6">>, LEA_TYPE |-> <<"1">>, ST_LEAID |-> <<"C","A","-","4","4","7","0">>,
     LEA_NAME |-> <<"E","l","s","e","w","h","e","r","e"," ","U","n","i","f","i","e","d">>, LEAID |-> <<"0","6","0","0","0","0","1">>] >>

\* source files in the layout with office, district, candidate and votes columns
OfficeHeader == <<<<"c","o","u","n","t","y">>, <<"p","r","e","c","i","n","c","t">>, <<"o","f","f","i","c","e">>, <<"d","i","s","t","r","i","c","t">>, <<"p","a","r","t","y">>,
                  <<"c","a","n","d","i","d","a","t","e">>, <<"v","o","t","e","s">>>>

OfficeRow(precinct, office_cell, district_cell, candidate_cell, votes_cell) ==
    <<<<"X">>, precinct, office_cell, district_cell, <<>>, candidate_cell, votes_cell>>

SourceFiles ==
    [camp_verde |->
        \* three precincts of one "Camp Verde USD Governing Board" race with
        \* two candidates
        [fields |-> OfficeHeader,
         rows |-> <<
            OfficeRow(<<"P","1">>, <<"C","a","m","p"," ","V","e","r","d","e"," ","U","S","D"," ","G","o","v","e","r","n","i","n","g"," ","B","o","a","r","d">>, <<>>, <<"J","a","n","e"," ","D","o","e">>, <<"1","2","0">>),
            OfficeRow(<<"P","1">>, <<"C","a","m","p"," ","V","e","r","d","e"," ","U","S","D"," ","G","o","v","e","r","n","i","n","g"," ","B","o","a","r","d">>, <<>>, <<"J","o","h","n"," ","R","o","e">>, <<"3","0">>),
            OfficeRow(<<"P","2">>, <<"C","a","m","p"," ","V","e","r","d","e"," ","U","S","D"," ","G","o","v","e","r","n","i","n","g"," ","B","o","a","r","d">>, <<>>, <<"J","a","n","e"," ","D","o","e">>, <<"8","5">>),
            OfficeRow(<<"P","2">>, <<"C","a","m","p"," ","V","e","r","d","e"," ","U","S","D"," ","G","o","v","e","r","n","i","n","g"," ","B","o","a","r","d">>, <<>>, <<"J","o","h","n"," ","R","o","e">>, <<"2","0">>),
            OfficeRow(<<"P","3">>, <<"C","a","m","p"," ","V","e","r","d","e"," ","U","S","D"," ","G","o","v","e","r","n","i","n","g"," ","B","o","a","r","d">>, <<>>, <<"J","a","n","e"," ","D","o","e">>, <<"4","0">>),
            OfficeRow(<<"P","3">>, <<"C","a","m","p"," ","V","e","r","d","e"," ","U","S","D"," ","G","o","v","e","r","n","i","n","g"," ","B","o","a","r","d">>, <<>>, <<"J","o","h","n"," ","R","o","e">>, <<"1","0">>) >>],
     mixed |->
        [fields |-> OfficeHeader,
         rows |-> <<
            OfficeRow(<<"P","1">>, <<"G","o","v","e","r","n","i","n","g"," ","B","o","a","r","d"," ","M","e","m","b","e","r">>, <<"C","A","M","P"," ","V","E","R","D","E"," ","U","S","D"," ","#","2","8">>, <<"A","n","n"," ","L","e","e">>, <<"1","0">>),
            OfficeRow(<<"P","1">>, <<"B","O","N","D"," ","Q","U","E","S","T","I","O","N"," ","G","O","V","E","R","N","I","N","G"," ","B","O","A","R","D">>, <<"C","A","M","P"," ","V","E","R","D","E"," ","U","S","D"," ","#","2","8">>, <<"Y","E","S">>, <<"5","0">>),
            OfficeRow(<<"P","1">>, <<"G","o","v","e","r","n","i","n","g"," ","B","o","a","r","d"," ","M","e","m","b","e","r">>, <<"C","o","n","c","h","o"," ","E","l","e","m",".">>, <<"B","o","b"," ","R","a","y">>, <<"7">>),
            OfficeRow(<<"P","1">>, <<"G","o","v","e","r","n","i","n","g"," ","B","o","a","r","d"," ","M","e","m","b","e","r">>, <<"A","C","M","E"," ","U","N","I","F","I","E","D">>, <<"C","y"," ","P","o","e">>, <<"5">>),
            OfficeRow(<<"P","1">>, <<"S","h","e","r","i","f","f">>, <<>>, <<"D","a","n"," ","F","o","x">>, <<"9","9">>),
            OfficeRow(<<"P","1">>, <<"G","o","v","e","r","n","i","n","g"," ","B","o","a","r","d"," ","M","e","m","b","e","r">>, <<"C","A","M","P"," ","V","E","R","D","E"," ","U","S","D"," ","#","2","8">>, <<"W","r","i","t","e","-","i","n">>, <<"3">>) >>],
     concho |->
        [fields |-> OfficeHeader,
         rows |-> <<
            OfficeRow(<<"P","1">>, <<"C","O","N","C","H","O"," ","E","S","D"," ","G","o","v","e","r","n","i","n","g"," ","B","o","a","r","d">>, <<>>, <<"E","v","e"," ","R","o","y">>, <<"1","2">>),
            OfficeRow(<<"P","1">>, <<"C","O","N","C","H","O"," ","E","S","D"," ","G","o","v","e","r","n","i","n","g"," ","B","o","a","r","d">>, <<>>, <<"G","u","s"," ","O","r","r">>, <<"9">>) >>],
     two_spellings |->
        \* one race whose office is written differently in two precincts
        [fields |-> OfficeHeader,
         rows |-> <<
            OfficeRow(<<"P","1">>, <<"C","a","m","p"," ","V","e","r","d","e"," ","U","S","D"," ","G","o","v","e","r","n","i","n","g"," ","B","o","a","r","d">>, <<>>, <<"J","a","n","e"," ","D","o","e">>, <<"1","2","0">>),
            OfficeRow(<<"P","2">>, <<"C","A","M","P"," ","V","E","R","D","E"," ","U","S","D"," ","G","O","V","E","R","N","I","N","G"," ","B","O","A","R","D">>, <<>>, <<"J","a","n","e"," ","D","o","e">>, <<"8","5">>) >>],
     short_row |->
        [fields |-> OfficeHeader,
         rows |-> <<
            OfficeRow(<<"P","1">>, <<"C","O","N","C","H","O"," ","E","S","D"," ","G","o","v","e","r","n","i","n","g"," ","B","o","a","r","d">>, <<>>, <<"E","v","e"," ","R","o","y">>, <<"1","2">>),
            <<<<"X">>, <<"P","2">>>> >>],
     no_schema |->
        \* a header of no layout extract_records knows
        [fields |-> <<<<"p","r","e","c","i","n","c","t">>, <<"n","a","m","e">>, <<"t","o","t","a","l">>>>,
         rows |-> << <<<<"P","1">>, <<"E","v","e"," ","R","o","y">>, <<"1","2">>>>, <<<<"P","1">>, <<"G","u","s"," ","O","r","r">>, <<"9">>>> >>]]

\* the files a repository of the model may hold behind a URL
FileChoices ==
    (get_county_url(2018, <<"y","a","v","a","p","a","i">>) :> {"camp_verde", "mixed", "two_spellings"}) @@
    (get_county_url(2016, <<"y","a","v","a","p","a","i">>) :> {"camp_verde"}) @@
    (get_county_url(2018, <<"a","p","a","c","h","e">>) :> {"concho", "short_row", "no_schema"})

Repositories ==
    UNION {{f \in [urls -> DOMAIN SourceFiles] : \A u \in urls : f[u] \in FileChoices[u]} :
              urls \in SUBSET (DOMAIN FileChoices)}

\* FileResult of every file of the model, for the counties of the model
FileResults ==
    [f \in DOMAIN SourceFiles, c \in {<<"Y","a","v","a","p","a","i">>, <<"A","p","a","c","h","e">>} |->
        FileResult(SourceFiles[f], c)]

ResultOf(f, county_display) == FileResults[f, county_display]

\* the URLs of the files for the pairs a table lacks
UrlsOf(missing) ==
    {get_county_url(q[2], CountyLower(CountyOfId(q[1]))) : q \in missing}

\* The runs of the model.  When both input files can be opened: every table
\* with every repository that has files only behind URLs of pairs the table
\* lacks (main asks for no other file).  When one cannot be opened: the
\* tables that lack (4470, 2018) or nothing, with the repositories that have
\* a file behind every URL.
MainInputs ==
    UNION {{[available |-> [master |-> TRUE, ccd |-> TRUE],
             master |-> TableOf(t[1], t[2], t[3]), source |-> r] :
                r \in {f \in Repositories : DOMAIN f \subseteq UrlsOf(t[2])}} :
           t \in TableChoices}
    \cup
    {[available |-> a, master |-> IF a.master THEN t ELSE <<>>, source |-> r] :
        a \in [master : BOOLEAN, ccd : BOOLEAN] \ {[master |-> TRUE, ccd |-> TRUE]},
        t \in {TableOf({4470, 4160}, missing, "floats") : missing \in {{}, {<<4470, 2018>>}}},
        r \in {f \in Repositories : DOMAIN f = DOMAIN FileChoices}}

MainInit ==
    /\ RaceIdle /\ AggIdle /\ ExtractIdle /\ WinnerIdle /\ FetchIdle
    /\ \E input \in MainInputs :
          /\ available = input.available
          /\ master = input.master
          /\ source = input.source
    /\ which_run = "first" /\ promoted = FALSE
    /\ pc = "start" /\ Fresh
    /\ staging_file = <<>> /\ match_log = <<>>

\* main, lines 620-652: the table, the directory and the district info are
\* read; a file that cannot be opened ends the run with an OSError, a cell
\* that is no number with a ValueError
Load ==
    /\ pc = "start"
    /\ IF ~available.master \/ LoadRaises(master) \/ ~available.ccd
       THEN /\ pc' = "crashed"
            /\ UNCHANGED loadedVars
       ELSE /\ pc' = "loaded"
            /\ existing_rows' = master
            /\ existing_pairs' = ExistingPairs(master)
            /\ ccd_districts' = CcdDistricts(CcdDirectory)
            /\ ctds_county' = CtdsCounty(master)
            /\ ctds_names' \in NameOrders(CtdsNames(master))
    /\ UNCHANGED <<winnerVars, fetchVars, inputVars, which_run, promoted, gaps_by_county_year, todo, loopVars,
                   fileVars, raceVars, aggVars, extractVars>>

\* main, lines 654-673: the gaps, and the loop's memory
Plan ==
    /\ pc = "loaded"
    /\ gaps_by_county_year' = GapsByCountyYear(ctds_county, existing_pairs)
    /\ todo' = SortGapKeys(DOMAIN gaps_by_county_year')
    /\ new_rows' = <<>> /\ filled_pairs' = {} /\ match_details' = <<>>
    /\ pc' = "planned"
    /\ UNCHANGED <<winnerVars, fetchVars, inputVars, which_run, promoted, loadedVars, fileVars, raceVars, aggVars, extractVars>>

\* a continue that also forgets the rows staged so far
SkipLosingRows ==
    /\ todo' = Tail(todo) /\ pc' = pc
    /\ new_rows' = <<>> /\ UNCHANGED <<filled_pairs, match_details>>

\* the iteration goes on to the next key with the loop's memory as it is
Skip == todo' = Tail(todo) /\ pc' = pc /\ UNCHANGED loopVars

\* the display name of each of the identifiers ids
DisplayPicks(ids) == [c \in ids |-> DisplayName(ctds_names, ccd_districts, c)]

\* a Materialize step that passes over the identifiers the run has already
\* filled for another year
StageOncePerIdentifier(res, ids, year, county_display) ==
    /\ new_rows' = new_rows \o
           RowsFor(SelectSeq(ids, LAMBDA c : \A q \in filled_pairs : q[1] # c),
                   DisplayPicks({ids[n] : n \in 1..Len(ids)}), res, year,
                   county_display, ccd_districts)
    /\ filled_pairs' = filled_pairs \cup {<<ids[n], year>> : n \in 1..Len(ids)}
    /\ match_details' = match_details \o
           DetailsFor(ids, res, year, county_display, ccd_districts)
    /\ todo' = Tail(todo) /\ pc' = pc

\* lines 727-770: the rows and the log entries of the identifiers ids, which
\* passed the safety check
Stage(res, ids, year, county_display) ==
    /\ new_rows' = new_rows \o
           RowsFor(ids, DisplayPicks({ids[n] : n \in 1..Len(ids)}), res, year,
                   county_display, ccd_districts)
    /\ filled_pairs' = filled_pairs \cup {<<ids[n], year>> : n \in 1..Len(ids)}
    /\ match_details' = match_details \o
           DetailsFor(ids, res, year, county_display, ccd_districts)
    /\ todo' = Tail(todo) /\ pc' = pc

\* lines 688-770 on what the file gave
Process(res, needed_ctds, year, county_display) ==
    IF res.raised
    THEN \* the exception of extract_records ends main
         pc' = "crashed" /\ UNCHANGED <<todo, loopVars>>
    ELSE IF res.candidates = <<>>
    THEN \* no precinct records: "No school board races found"
         Skip
    ELSE Stage(res, Materialized(res, needed_ctds, year, existing_pairs),
               year, county_display)

\* lines 680-686: download_file returns None when there is no file behind
\* the URL
Fetch(url, needed_ctds, year, county_display) ==
    IF url \notin DOMAIN source THEN Skip
    ELSE Process(ResultOf(source[url], county_display), needed_ctds, year, county_display)

\* One iteration of the loop of lines 676-770 for the first key of todo: what
\* it does to the loop's memory.
Iteration ==
    /\ pc = "planned" /\ todo # <<>>
    /\ Fetch(get_county_url(Head(todo)[2], Head(todo)[1]),
             gaps_by_county_year[Head(todo)], Head(todo)[2],
             CountyDisplay(Head(todo)[1]))

\* an iteration that also adds the pairs it fills to existing_pairs
ExecuteMarksFilled ==
    /\ Iteration
    /\ existing_pairs' = existing_pairs \cup filled_pairs'
    /\ UNCHANGED <<winnerVars, fetchVars, inputVars, which_run, promoted, existing_rows, ccd_districts,
                   ctds_county, ctds_names, gaps_by_county_year, fileVars,
                   raceVars, aggVars, extractVars>>

\* main, lines 676-770: one iteration of the loop; nothing that Load built
\* is written
Execute ==
    /\ Iteration
    /\ UNCHANGED <<winnerVars, fetchVars, inputVars, which_run, promoted, loadedVars, gaps_by_county_year,
                   fileVars, raceVars, aggVars, extractVars>>

\* main, lines 787-797: after the loop the staging file and the log are written
Emit ==
    /\ pc = "planned" /\ todo = <<>>
    /\ staging_file' = <<new_rows>>
    /\ match_log' = <<match_details>>
    /\ pc' = "done"
    /\ UNCHANGED <<winnerVars, fetchVars, inputVars, which_run, promoted, loadedVars, gaps_by_county_year, todo,
                   loopVars, raceVars, aggVars, extractVars>>

\* The promotion of the staged rows into the authoritative table, the separate
\* step outside main: the rows of the staging file are appended to the table.
Promote ==
    /\ pc = "done" /\ which_run = "first" /\ ~promoted
    /\ staging_file # <<>> /\ staging_file[1] # <<>>
    /\ master' = master \o staging_file[1]
    /\ promoted' = TRUE
    /\ UNCHANGED <<winnerVars, fetchVars, source, available, which_run, pc, loadedVars, gaps_by_county_year, todo, loopVars,
                   fileVars, raceVars, aggVars, extractVars>>

\* main is started a second time, on the same repository
Rerun ==
    /\ pc \in {"done", "crashed"} /\ which_run = "first"
    /\ which_run' = "second"
    /\ pc' = "start"
    /\ existing_rows' = <<>> /\ existing_pairs' = {} /\ ccd_districts' = <<>>
    /\ ctds_county' = <<>> /\ ctds_names' = <<>>
    /\ gaps_by_county_year' = <<>> /\ todo' = <<>>
    /\ new_rows' = <<>> /\ filled_pairs' = {} /\ match_details' = <<>>
    /\ UNCHANGED <<winnerVars, fetchVars, inputVars, promoted, fileVars, raceVars, aggVars, extractVars>>

Next == Load \/ Plan \/ Execute \/ Emit \/ Promote \/ Rerun

Spec == MainInit /\ [][Next]_vars

(***************************************************************************)
(* populate_winners.py: main on a table and a summary                      *)
(***************************************************************************)
\* the most rows of a table given to populate_winners
MaxCandidates == 3

WinnerRow(year, name, votes, won) ==
    [EmptyRow EXCEPT !.year = year, !.county = <<"Y","a","v","a","p","a","i">>,
                     !.school_district = <<"C","a","m","p"," ","V","e","r","d","e"," ","U","S","D">>, !.ctds_id = <<"4","4","7","0">>,
                     !.candidate = name, !.total_votes = votes, !.winner = won]

WinnerRowChoices == {
    WinnerRow(<<"2","0","1","8">>, <<"J","a","n","e"," ","D","o","e">>, <<"1","2","0",".","0">>, <<>>),
    WinnerRow(<<"2","0","1","8">>, <<"J","o","h","n"," ","R","o","e">>, <<"8","5">>, <<>>),
    WinnerRow(<<"2","0","1","8">>, <<"A","n","n"," ","L","e","e">>, <<"1","2","0">>, <<>>),
    WinnerRow(<<"2","0","1","8">>, <<"W","r","i","t","e","-","I","n">>, <<"7">>, <<>>),
    WinnerRow(<<"2","0","1","8">>, <<"B","o","b"," ","R","a","y">>, <<>>, <<"Y","E","S">>),
    WinnerRow(<<"2","0","2","0">>, <<"C","y"," ","P","o","e">>, <<"1","0",".","0">>, <<" ">>) }

RECURSIVE WinnerTables(_)
\* the tables of at most n rows
WinnerTables(n) ==
    IF n = 0 THEN {<<>>}
    ELSE WinnerTables(n - 1) \cup
         {Append(l, r) : l \in {x \in WinnerTables(n - 1) : Len(x) = n - 1},
                         r \in WinnerRowChoices}

SummaryRow(year, seats) ==
    [year |-> year, school_district |-> <<"C","a","m","p"," ","V","e","r","d","e"," ","U","S","D">>, num_seats |-> seats]

SummaryChoices == {
    <<>>,
    <<SummaryRow(<<"2","0","1","8">>, <<"1">>)>>,
    <<SummaryRow(<<"2","0","1","8">>, <<" ","2",".","0"," ">>), SummaryRow(<<"2","0","2","0">>, <<"1">>)>>,
    <<SummaryRow(<<"2","0","1","8">>, <<"a","b","c">>), SummaryRow(<<"2","0","2","0">>, <<>>)>>,
    <<SummaryRow(<<"2","0","1","8">>, <<"0">>), SummaryRow(<<"2","0","2","0">>, <<"3">>)>>,
    <<SummaryRow(<<"2","0","1","8">>, <<"2">>), SummaryRow(<<"2","0","2","0">>, <<"i","n","f">>)>> }

WinnersInit ==
    /\ RaceIdle /\ AggIdle /\ ExtractIdle /\ MainIdle /\ FetchIdle
    /\ pw_master \in WinnerTables(MaxCandidates)
    /\ pw_summary \in SummaryChoices
    /\ pw_pc = "start" /\ pw_run = 1
    /\ seats_lookup = <<>> /\ pw_rows = <<>>

\* lines 45-79: the summary is read into seats_lookup, the table into rows
PwLoad ==
    /\ pw_pc = "start"
    /\ IF SeatsRaise(pw_summary)
       THEN pw_pc' = "crashed" /\ UNCHANGED <<seats_lookup, pw_rows>>
       ELSE /\ seats_lookup' = SeatsLookup(pw_summary)
            /\ pw_rows' = pw_master
            /\ pw_pc' = "loaded"
    /\ UNCHANGED <<pw_master, pw_summary, pw_run, raceVars, aggVars, extractVars,
                   mainVars, fetchVars>>

\* lines 81-130: the loop over the district-years, on the rows in memory
PwFill ==
    /\ pw_pc = "loaded"
    /\ IF FillRaises(pw_rows, seats_lookup)
       THEN pw_pc' = "crashed" /\ UNCHANGED pw_rows
       ELSE pw_rows' = Filled(pw_rows, seats_lookup) /\ pw_pc' = "filled"
    /\ UNCHANGED <<pw_master, pw_summary, pw_run, seats_lookup, raceVars, aggVars,
                   extractVars, mainVars, fetchVars>>

\* lines 132-155: the rows are written over the table; the report divides by
\* the number of rows
PwWrite ==
    /\ pw_pc = "filled"
    /\ pw_master' = pw_rows
    /\ pw_pc' = IF Len(pw_rows) = 0 THEN "crashed" ELSE "done"
    /\ UNCHANGED <<pw_summary, pw_run, seats_lookup, pw_rows, raceVars, aggVars,
                   extractVars, mainVars, fetchVars>>

\* populate_winners is started a second time on the files it left
PwRerun ==
    /\ pw_pc \in {"done", "crashed"} /\ pw_run = 1
    /\ pw_run' = 2 /\ pw_pc' = "start"
    /\ seats_lookup' = <<>> /\ pw_rows' = <<>>
    /\ UNCHANGED <<pw_master, pw_summary, raceVars, aggVars, extractVars, mainVars,
                   fetchVars>>

WinnersNext == PwLoad \/ PwFill \/ PwWrite \/ PwRerun

SpecWinners == WinnersInit /\ [][WinnersNext]_vars

(***************************************************************************)
(* build_turnout_csv.py: fetch(url, retries)                               *)
(***************************************************************************)
\* the most attempts a call is given
MaxRetries == 3

PageTexts == { <<"c","o","u","n","t","y",",","p","r","e","c","i","n","c","t">>, <<"<","h","t","m","l",">">> }

\* what urlopen(url).read() does at one attempt: <<>> it raises, <<t>> it
\* gives the text t
Responses == {<<>>} \cup {<<t>> : t \in PageTexts}

FetchInit ==
    /\ RaceIdle /\ AggIdle /\ ExtractIdle /\ MainIdle /\ WinnerIdle
    /\ retries \in 0..MaxRetries
    /\ network \in [1..MaxRetries -> Responses]
    /\ fetch_pc = "calling" /\ attempt = 0 /\ calls = 0
    /\ slept = <<>> /\ fetched = <<>>

\* a turn that sleeps after every caught exception, the last one too
FetchTrySleepsAlways ==
    /\ fetch_pc = "calling" /\ attempt < retries
    /\ calls' = calls + 1
    /\ IF network[attempt + 1] # <<>>
       THEN /\ fetched' = network[attempt + 1] /\ fetch_pc' = "returned"
            /\ UNCHANGED <<attempt, slept>>
       ELSE /\ slept' = Append(slept, 2 ^ (attempt + 1))
            /\ IF attempt < retries - 1
               THEN attempt' = attempt + 1 /\ UNCHANGED <<fetch_pc, fetched>>
               ELSE fetched' = <<NoneVal>> /\ fetch_pc' = "returned" /\ UNCHANGED attempt
    /\ UNCHANGED <<retries, network, raceVars, aggVars, extractVars, mainVars,
                   winnerVars>>

\* one turn of `for attempt in range(retries)`: the text is returned, or the
\* exception is caught and fetch sleeps before the next turn, or, at the last
\* turn, returns None
FetchTry ==
    /\ fetch_pc = "calling" /\ attempt < retries
    /\ calls' = calls + 1
    /\ IF network[attempt + 1] # <<>>
       THEN /\ fetched' = network[attempt + 1] /\ fetch_pc' = "returned"
            /\ UNCHANGED <<attempt, slept>>
       ELSE IF attempt < retries - 1
            THEN /\ slept' = Append(slept, 2 ^ (attempt + 1))
                 /\ attempt' = attempt + 1
                 /\ UNCHANGED <<fetch_pc, fetched>>
            ELSE /\ fetched' = <<NoneVal>> /\ fetch_pc' = "returned"
                 /\ UNCHANGED <<attempt, slept>>
    /\ UNCHANGED <<retries, network, raceVars, aggVars, extractVars, mainVars,
                   winnerVars>>

\* range(retries) is empty: the function ends without a return statement
FetchNoTurn ==
    /\ fetch_pc = "calling" /\ attempt >= retries
    /\ fetched' = <<NoneVal>> /\ fetch_pc' = "returned"
    /\ UNCHANGED <<retries, network, attempt, calls, slept, raceVars, aggVars,
                   extractVars, mainVars, winnerVars>>

FetchNext == FetchTry \/ FetchNoTurn

SpecFetch == FetchInit /\ [][FetchNext]_vars

\* The interpreter goes on with the loop: urlopen has a timeout and ends with
\* a response or an exception, and sleep ends.
SpecFetchFair == SpecFetch /\ WF_vars(FetchNext)

(***************************************************************************)
(* Properties of the aggregator                                            *)
(***************************************************************************)
\* the grouping key the specification names: exact strings
GroupKey(r) == <<r.county, r.office, r.district, r.candidate, r.party>>

\* the records of rs in group k
MembersOf(rs, k) == LET Same(r) == GroupKey(r) = k IN SelectSeq(rs, Same)

RECURSIVE VotesSum(_)
\* the sum of total_votes over a list
VotesSum(rs) == IF rs = <<>> THEN 0 ELSE Head(rs).total_votes + VotesSum(Tail(rs))

\* C5: aggregate_to_candidates gives exactly one aggregate per distinct
\* (county, office, district, candidate, party) key, compared as exact strings;
\* its total_votes is the sum of the total_votes of the records with that key,
\* so the totals of the aggregates add up to the totals of the records.
C5_AggregateSums ==
    agg_pc = "done" =>
        /\ \A i \in 1..Len(precinct_records) :
              Cardinality({j \in 1..Len(candidates) :
                              GroupKey(candidates[j]) = GroupKey(precinct_records[i])}) = 1
        /\ \A j \in 1..Len(candidates) :
              LET members == MembersOf(precinct_records, GroupKey(candidates[j]))
              IN  members # <<>> /\ candidates[j].total_votes = VotesSum(members)
        /\ VotesSum(candidates) = VotesSum(precinct_records)

\* three precincts report 120, 85 and 40 votes for Jane Doe: one aggregate of 245
C5_Witness ==
    /\ agg_pc = "done"
    /\ precinct_records =
          << Precinct(<<"J","a","n","e"," ","D","o","e">>, 120, NoSubTotal, NoSubTotal, NoSubTotal),
             Precinct(<<"J","a","n","e"," ","D","o","e">>, 85, NoSubTotal, NoSubTotal, NoSubTotal),
             Precinct(<<"J","a","n","e"," ","D","o","e">>, 40, NoSubTotal, NoSubTotal, NoSubTotal) >>
    /\ Len(candidates) = 1
    /\ candidates[1].total_votes = 245

\* a record reports a sub-total when the field holds a number
Reported(x) == x.isInt \/ (x.s # <<>> /\ IntFloat(x.s).ok)

ReportedValue(x) == IF x.isInt THEN x.n ELSE IntFloat(x.s).val

RECURSIVE ReportedSum(_, _)
\* the sum of the sub-totals that the records of rs report in field
ReportedSum(rs, field) ==
    IF rs = <<>> THEN 0
    ELSE (IF Reported(Head(rs)[field]) THEN ReportedValue(Head(rs)[field]) ELSE 0)
         + ReportedSum(Tail(rs), field)

\* C6: in every aggregate each vote-method sub-total is the sum of the
\* sub-totals its member records reported; it is absent only if no member
\* reported it, and a reported sum of zero is zero, not absent.
C6_SubTotalAbsentOnlyIfUnreported ==
    agg_pc = "done" =>
        \A j \in 1..Len(candidates) :
            \A field \in {"early_voting", "election_day", "provisional"} :
                LET members == MembersOf(precinct_records, GroupKey(candidates[j]))
                    reported == \E i \in 1..Len(members) : Reported(members[i][field])
                IN  candidates[j][field] =
                        IF reported THEN <<ReportedSum(members, field)>> ELSE <<>>

(***************************************************************************)
(* Properties of the classifier and the resolver                           *)
(***************************************************************************)
InputIs(o, d) == race_office = o /\ race_district = d

\* C7: is_school_board_race on the fixtures: ("GOVERNING BOARD MEMBER",
\* "CAMP VERDE USD #28") is accepted, ("BOND QUESTION", "CAMP VERDE USD #28") and
\* ("FIRE DISTRICT BOARD", "") are rejected, and ("CAMP VERDE USD #28", ""),
\* which has no seat-count marker but resolves to a district, is accepted.
C7_ClassifierFixtures ==
    race_pc = "classified" =>
        /\ InputIs(<<"G","O","V","E","R","N","I","N","G"," ","B","O","A","R","D"," ","M","E","M","B","E","R">>, <<"C","A","M","P"," ","V","E","R","D","E"," ","U","S","D"," ","#","2","8">>) => accepted
        /\ InputIs(<<"B","O","N","D"," ","Q","U","E","S","T","I","O","N">>, <<"C","A","M","P"," ","V","E","R","D","E"," ","U","S","D"," ","#","2","8">>) => ~accepted
        /\ InputIs(<<"F","I","R","E"," ","D","I","S","T","R","I","C","T"," ","B","O","A","R","D">>, <<>>) => ~accepted
        /\ InputIs(<<"C","A","M","P"," ","V","E","R","D","E"," ","U","S","D"," ","#","2","8">>, <<>>) => accepted

C7_Witness ==
    race_pc = "classified" /\ InputIs(<<"C","A","M","P"," ","V","E","R","D","E"," ","U","S","D"," ","#","2","8">>, <<>>) /\ accepted

\* the text the classifier looks at
ClassifiedText == Upper(race_office \o <<" ">> \o race_district)

HasDisqualifying == AnyIn(ClassifiedText, DisqualifyingKeywords)
HasBoard         == AnyIn(ClassifiedText, board_keywords)
HasNonSchool     == AnyIn(ClassifiedText, NonSchoolKeywords)
HasDistrictType  == AnyIn(ClassifiedText, district_keywords)
HasSeatPhrase    == AnyIn(ClassifiedText, SeatKeywords)
HasDistrictTypePiped == AnyIn(ReplaceChar(ClassifiedText, "|", " "), district_keywords)
Resolves         == match_to_ctds(race_office, race_district, <<>>) # <<>>

\* C9 as stated: for text with no disqualifying keyword the result equals the
\* layered rule: accepted if the text has a governing-board keyword and no
\* non-school-board keyword, otherwise accepted only with a district-type
\* keyword and either a seat-selection phrase or a resolvable district; all
\* other text rejected.
C9_LayeredRuleAsStated ==
    (race_pc = "classified" /\ ~HasDisqualifying) =>
        (accepted <=>
            \/ HasBoard /\ ~HasNonSchool
            \/ HasDistrictType /\ (HasSeatPhrase \/ Resolves))

\* C9 amended: for text with no disqualifying keyword, text with a
\* governing-board keyword is accepted exactly when it has no non-school-board
\* keyword; text without a governing-board keyword is accepted exactly when it
\* has a district-type keyword and a seat-selection phrase or a resolvable
\* district, or when it resolves and has a district-type keyword once every
\* "|" is read as a space.
C9_LayeredRule ==
    (race_pc = "classified" /\ ~HasDisqualifying) =>
        (accepted <=>
            IF HasBoard THEN ~HasNonSchool
            ELSE \/ HasDistrictType /\ (HasSeatPhrase \/ Resolves)
                 \/ HasDistrictTypePiped /\ Resolves)

\* a resolvable text whose only district-type keyword straddles a "|"
C9_Witness ==
    /\ race_pc = "classified"
    /\ ~HasDisqualifying /\ ~HasBoard /\ ~HasDistrictType
    /\ HasDistrictTypePiped /\ Resolves
    /\ accepted

\* the texts match_to_ctds tries: each of texts_to_try and the combined text,
\* upper-cased and normalized
TriedTexts(o, d) ==
    LET tt == texts_to_try(o, d)
        c  == CombinedText(o, d)
    IN  {Strip(Upper(tt[i])) : i \in 1..Len(tt)}
        \cup {normalize_race_name(tt[i]) : i \in 1..Len(tt)}
        \cup {c, normalize_race_name(c)}

\* the identifiers of the fragments contained in text
IdsIn(text) ==
    {MANUAL_CTDS_MAP[i][2] : i \in UNION {FragmentsAt(FragmentsByFirst, text, p) : p \in 1..Len(text)}}

\* C10: match_to_ctds returns none exactly when no fragment of the mapping is
\* contained in any of the texts it tries; otherwise it returns the identifier
\* of a fragment contained in one of them, never a default.
C10_NoneIffNoFragment ==
    race_pc = "resolved" =>
        LET ids == UNION {IdsIn(t) : t \in TriedTexts(race_office, race_district)}
        IN  /\ resolved = <<>> <=> ids = {}
            /\ resolved # <<>> => resolved[1] \in ids

\* a district that resolves only after normalization
C10_Witness ==
    /\ race_pc = "resolved"
    /\ InputIs(<<"G","O","V","E","R","N","I","N","G"," ","B","O","A","R","D"," ","M","E","M","B","E","R">>, <<"C","o","n","c","h","o"," ","E","l","e","m",".">>)
    /\ resolved = <<4160>>

\* the position in the mapping of the first fragment contained in text, 0 if
\* no fragment is contained
FirstKeyIn(text) ==
    LET found == {i \in 1..Len(MANUAL_CTDS_MAP) : Contains(text, MANUAL_CTDS_MAP[i][1])}
    IN  IF found = {} THEN 0 ELSE CHOOSE i \in found : \A j \in found : i <= j

\* the identifier of the first fragment of the mapping contained in the first
\* of texts that contains one; <<>> if none of texts contains a fragment
FirstMatchOver(texts) ==
    LET found == {i \in 1..Len(texts) : FirstKeyIn(texts[i]) # 0}
    IN  IF found = {} THEN <<>>
        ELSE <<MANUAL_CTDS_MAP[FirstKeyIn(texts[CHOOSE i \in found : \A j \in found : i <= j])][2]>>

\* the district, the office and the concatenation, upper-cased
RawTexts(o, d) ==
    [i \in 1..Len(texts_to_try(o, d)) |-> Strip(Upper(texts_to_try(o, d)[i]))]

\* the district, the office and the concatenation, normalized
NormalizedTexts(o, d) ==
    [i \in 1..Len(texts_to_try(o, d)) |-> normalize_race_name(texts_to_try(o, d)[i])]

\* each text upper-cased and then normalized, before the next text
TextByText(o, d) ==
    [i \in 1..(2 * Len(texts_to_try(o, d))) |->
        IF i % 2 = 1 THEN RawTexts(o, d)[(i + 1) \div 2]
                     ELSE NormalizedTexts(o, d)[i \div 2]]

\* C11 as stated: match_to_ctds returns the first containment match in the
\* order raw district, raw office, office+district concatenation, and then
\* each of those after normalization; within one text the fragment listed
\* first in the mapping wins.
C11_RawBeforeNormalized ==
    race_pc = "resolved" =>
        LET m == FirstMatchOver(RawTexts(race_office, race_district)
                                \o NormalizedTexts(race_office, race_district))
        IN  m # <<>> => resolved = m

\* C11 amended: match_to_ctds returns the first containment match in the
\* order district raw, district normalized, office raw, office normalized,
\* concatenation raw, concatenation normalized; a fragment contained in the
\* normalized district text takes precedence over a fragment contained in the
\* raw office text, and within one text the fragment listed first in the
\* mapping wins.
C11_TextByText ==
    race_pc = "resolved" =>
        LET m == FirstMatchOver(TextByText(race_office, race_district))
        IN  m # <<>> => resolved = m

\* the raw office names Camp Verde USD (4470), only the normalized district
\* names Concho Elementary (4160)
C11_Witness ==
    /\ race_pc = "resolved"
    /\ InputIs(<<"C","A","M","P"," ","V","E","R","D","E"," ","U","S","D"," ","#","2","8">>, <<"C","o","n","c","h","o"," ","E","l","e","m",".">>)
    /\ FirstKeyIn(Strip(Upper(race_district))) = 0
    /\ FirstMatchOver(<<Strip(Upper(race_office))>>) = <<4470>>
    /\ resolved = <<4160>>

(***************************************************************************)
(* Properties of extract_records                                           *)
(***************************************************************************)
\* a label of a precinct total: compared in upper case, surrounding white
\* space ignored
IsPrecinctTotal(label) ==
    \/ Strip(Upper(label)) \in {<<"R","E","G","I","S","T","E","R","E","D"," ","V","O","T","E","R","S">>, <<"B","A","L","L","O","T","S"," ","C","A","S","T">>, <<"W","R","I","T","E","-","I","N">>,
                                <<"O","V","E","R"," ","V","O","T","E">>, <<"U","N","D","E","R"," ","V","O","T","E">>, <<"O","V","E","R","V","O","T","E">>, <<"U","N","D","E","R","V","O","T","E">>}
    \/ \E start \in {<<"W","R","I","T","E","-","I","N">>, <<"W","R","I","T","E"," ","I","N">>, <<"O","V","E","R"," ">>, <<"U","N","D","E","R"," ">>, <<"T","O","T","A","L">>} :
          StartsWith(Strip(Upper(label)), start)

\* the labels carried by a list of records or of candidate aggregates
LabelsOf(list) == {list[i].candidate : i \in 1..Len(list)}

\* the lines of the canvass behind csv_file that name a governing board race,
\* have a positive count and a metadata label
LabelRows ==
    {i \in 1..Len(csv_file.rows) :
        \E k \in 1..Len(BallotLines) :
              /\ csv_file.rows[i] = SheetRow(csv_file.fields, BallotLines[k])
              /\ is_school_board_race(BallotLines[k].office_cell, <<>>)
              /\ IsPrecinctTotal(BallotLines[k].candidate_cell)
              /\ VotesOf(BallotLines[k].votes_cell) > 0}

\* C12: in every recognized layout a row whose candidate label is a metadata
\* label (compared case-insensitively, surrounding white space ignored,
\* starts-with variants included) is dropped by extract_records: no record
\* and no candidate aggregate carries such a label.
C12_MetadataRowsDropped ==
    extract_pc = "done" =>
        \A label \in LabelsOf(extracted.records)
                     \cup LabelsOf(aggregate_to_candidates(extracted.records)) :
            ~IsPrecinctTotal(label) /\ ~is_metadata_row(label)

\* a contesttitle file with a "Registered Voters" row of a governing board
\* race and a candidate's row: one record
C12_Witness ==
    /\ extract_pc = "done"
    /\ csv_file = Sheet(3, <<BallotLines[4], BallotLines[1]>>)
    /\ LabelRows = {1}
    /\ Len(extracted.records) = 1

\* counts that are no number or not positive
BadCounts == {<<"a","b","c">>, <<>>, <<"0">>, <<"-","5">>, <<"i","n","f">>}

\* the row comes from a line of the canvass with such a count
HasBadCount(row) ==
    \E k \in 1..Len(BallotLines) :
        /\ row = SheetRow(csv_file.fields, BallotLines[k])
        /\ BallotLines[k].votes_cell \in BadCounts

\* csv_file without the rows that have such a count
WithoutBadCounts ==
    [fields |-> csv_file.fields,
     rows   |-> SelectSeq(csv_file.rows, LAMBDA row : ~HasBadCount(row))]

\* C15: extract_records drops every row whose vote count is non-numeric or
\* not positive: every record has an integer total_votes greater than zero,
\* and a row with a malformed count is skipped without raising and without
\* changing what is extracted from the other rows.
C15_BadCountsSkipped ==
    extract_pc = "done" =>
        /\ ~extracted.raised
        /\ \A i \in 1..Len(extracted.records) :
              extracted.records[i].total_votes \in Nat \ {0}
        /\ extracted.records = extract_records(WithoutBadCounts, <<"Y","a","v","a","p","a","i">>).records

\* the names of the columns of the sub-totals and of the candidate, in the
\* layouts that have them
EarlyColumns       == {<<"e","a","r","l","y","_","v","o","t","e","s">>, <<"e","a","r","l","y","_","v","o","t","i","n","g">>}
ElectionDayColumns == {<<"p","o","l","l","i","n","g","_","p","l","a","c","e","_","v","o","t","e","s">>, <<"e","l","e","c","t","i","o","n","_","d","a","y">>}
ProvisionalColumns == {<<"p","r","o","v","i","s","i","o","n","a","l","_","v","o","t","e","s">>, <<"p","r","o","v","i","s","i","o","n","a","l">>}
CandidateColumns   == {<<"c","h","o","i","c","e","_","n","a","m","e">>, <<"c","a","n","d","i","d","a","t","e"," ","n","a","m","e">>, <<"c","a","n","d","i","d","a","t","e">>}

HasColumn(fields, names) == \E i \in 1..Len(fields) : fields[i] \in names

\* the header has a column for each of the three sub-totals
HasSubTotalColumns(fields) ==
    /\ HasColumn(fields, EarlyColumns)
    /\ HasColumn(fields, ElectionDayColumns)
    /\ HasColumn(fields, ProvisionalColumns)

\* the cell of row under the column with one of names
CellUnder(fields, row, names) == row[CHOOSE i \in 1..Len(fields) : fields[i] \in names]

\* the record has the candidate and the three sub-totals of row
CarriesSubTotals(rec, fields, row) ==
    /\ rec.candidate = CellUnder(fields, row, CandidateColumns)
    /\ rec.early_voting = StrVal(CellUnder(fields, row, EarlyColumns))
    /\ rec.election_day = StrVal(CellUnder(fields, row, ElectionDayColumns))
    /\ rec.provisional = StrVal(CellUnder(fields, row, ProvisionalColumns))

\* C20: extract_records carries the early-voting, election-day and
\* provisional sub-totals of a row through to its record whenever the layout
\* has columns for them (the office layout, and a contest_name/choice_name
\* layout with early_votes, polling_place_votes and provisional_votes), and
\* leaves them absent in the layouts without such columns.
C20_SubTotalsCarried ==
    extract_pc = "done" =>
        \A i \in 1..Len(extracted.records) :
            IF HasSubTotalColumns(csv_file.fields)
            THEN \E n \in 1..Len(csv_file.rows) :
                    /\ Len(csv_file.rows[n]) = Len(csv_file.fields)
                    /\ CarriesSubTotals(extracted.records[i], csv_file.fields, csv_file.rows[n])
            ELSE \/ HasColumn(csv_file.fields, {<<"v","o","t","e","t","y","p","e">>})
                 \/ /\ extracted.records[i].early_voting = StrVal(<<>>)
                    /\ extracted.records[i].election_day = StrVal(<<>>)
                    /\ extracted.records[i].provisional = StrVal(<<>>)

\* the row has fewer cells than the header: DictReader gives it None in the
\* columns it lacks
IsShortRow(row) == Len(row) < Len(csv_file.fields)

\* csv_file without its short rows
WithoutShortRows ==
    [fields |-> csv_file.fields,
     rows   |-> SelectSeq(csv_file.rows, LAMBDA row : ~IsShortRow(row))]

\* C21: a malformed row of a recognized layout (a row with fewer cells than
\* the header, so that its office, district or candidate is missing) is
\* skipped: extract_records does not raise and returns the records of the
\* other rows.
C21_MalformedRowsSkipped ==
    extract_pc = "done" =>
        /\ ~extracted.raised
        /\ extracted.records = extract_records(WithoutShortRows, <<"Y","a","v","a","p","a","i">>).records

\* csv_file with its header names in lower case
LowerHeaded ==
    [fields |-> [i \in 1..Len(csv_file.fields) |-> Lower(csv_file.fields[i])],
     rows   |-> csv_file.rows]

\* C22: the layout is selected by the header names compared without regard
\* to letter case, and a file whose header names differ only in letter case
\* from a known layout gives the records of the same file with lower-case
\* header names.
C22_HeaderCaseIgnored ==
    extract_pc = "done" =>
        /\ LayoutOf(csv_file.fields) = LayoutOf(LowerHeaded.fields)
        /\ extracted = extract_records(LowerHeaded, <<"Y","a","v","a","p","a","i">>)

(***************************************************************************)
(* Properties of main                                                      *)
(***************************************************************************)
\* the (identifier, year) pair a row of a table names
RowPair(r) == <<IntFloat(r.ctds_id).val, IntFloat(r.year).val>>

\* the pairs a table contains
TablePairs(table) ==
    {RowPair(table[i]) : i \in {j \in 1..Len(table) : table[j].ctds_id # <<>>}}

\* the table is as it was when the run started
TableAsAtStart == ~(which_run = "first" /\ promoted)

\* the rows the run has emitted, or will emit with what it has so far
EmittedRows == IF pc = "done" THEN staging_file[1] ELSE new_rows

\* C1: no-overwrite: for every row a run of main emits, the (identifier, year)
\* pair is not among the pairs the authoritative table contained when the run
\* started.
C1_NoOverwrite ==
    (pc \in {"planned", "done"} /\ TableAsAtStart) =>
        \A i \in 1..Len(EmittedRows) : RowPair(EmittedRows[i]) \notin TablePairs(master)

\* a run that emitted rows for an identifier of which the table has other years
C1_Witness ==
    /\ pc = "done" /\ TableAsAtStart
    /\ staging_file[1] # <<>>
    /\ \E q \in TablePairs(master) : q[1] = RowPair(staging_file[1][1])[1]

FixtureAtYavapai2018 ==
    /\ get_county_url(2018, <<"y","a","v","a","p","a","i">>) \in DOMAIN source
    /\ source[get_county_url(2018, <<"y","a","v","a","p","a","i">>)] = "camp_verde"

FirstRunDone == which_run = "first" /\ pc = "done" /\ ~promoted

\* exactly two rows, both for (4470, 2018), and one log entry for that pair
TwoRowsOneEntry ==
    /\ Len(staging_file[1]) = 2
    /\ \A i \in 1..Len(staging_file[1]) : RowPair(staging_file[1][i]) = <<4470, 2018>>
    /\ Cardinality({i \in 1..Len(match_log[1]) :
                       match_log[1][i].ctds = 4470 /\ match_log[1][i].year = 2018}) = 1

\* C3 as stated: when the table has no entry for (4470, 2018) and the Yavapai
\* 2018 file is the fixture, one run emits exactly two rows, both for
\* (4470, 2018), and exactly one match-log entry for that pair.
C3_EndToEndAsStated ==
    (FirstRunDone /\ <<4470, 2018>> \notin TablePairs(master) /\ FixtureAtYavapai2018)
        => TwoRowsOneEntry

\* C3 amended: when (4470, 2018) is the only gap of the table, 4470 being known
\* there under Yavapai county, and the Yavapai 2018 file is the fixture, one
\* run emits exactly two rows, both for (4470, 2018), and exactly one
\* match-log entry for that pair.
C3_EndToEnd ==
    (/\ FirstRunDone /\ <<4470, 2018>> \notin TablePairs(master) /\ FixtureAtYavapai2018
     /\ gaps_by_county_year = (<<<<"y","a","v","a","p","a","i">>, 2018>> :> {4470}))
        => TwoRowsOneEntry

C3_Witness ==
    /\ FirstRunDone /\ <<4470, 2018>> \notin TablePairs(master) /\ FixtureAtYavapai2018
    /\ gaps_by_county_year = (<<<<"y","a","v","a","p","a","i">>, 2018>> :> {4470})
    /\ TwoRowsOneEntry
    /\ staging_file[1][1].candidate = <<"J","a","n","e"," ","D","o","e">>
    /\ staging_file[1][1].total_votes = <<"2","4","5",".","0">>

\* a step taken while main runs writes neither the table nor the repository,
\* and after Load neither the existing rows nor the existing pairs
KeepsTable ==
    pc \in {"start", "loaded", "planned"} =>
        /\ master' = master
        /\ source' = source
        /\ (pc # "start" =>
               (existing_rows' = existing_rows /\ existing_pairs' = existing_pairs))

\* C4: the authoritative table is read-only to main: no step of a run writes
\* the table or the repository, and from Load to the end of the run the
\* existing rows and the existing pairs in memory do not change; the staging
\* file and the match log are the only files written.
C4_TableReadOnly == [][KeepsTable]_vars

\* a run that filled a gap and wrote its files: memory and table as loaded
C4_Witness ==
    /\ pc = "done" /\ which_run = "first" /\ ~promoted
    /\ staging_file[1] # <<>> /\ match_log[1] # <<>>
    /\ existing_rows = master /\ existing_pairs = TablePairs(master)

\* the races of a file whose combined text has a disqualifying keyword
DisqualifiedIn(file) ==
    LET Cells(i) == RowCells(LayoutOf(file.fields), file.fields, file.rows[i])
    IN  {<<Cells(i).office, Cells(i).district>> :
            i \in {j \in 1..Len(file.rows) :
                    /\ Cells(j).office # NoneVal /\ Cells(j).district # NoneVal
                    /\ AnyIn(Upper(Cells(j).office \o <<" ">> \o Cells(j).district),
                             DisqualifyingKeywords)}}

DisqualifiedRaces == [f \in DOMAIN SourceFiles |-> DisqualifiedIn(SourceFiles[f])]

\* the office text of the row main writes for a race
OfficeText(o, d) == IF d # <<>> THEN o \o <<" ","-"," ">> \o d ELSE o

\* office and district texts with and without disqualifying keywords, next
\* to governing-board, district-type and seat keywords and resolvable names
DisqualifyingProbes == Phrases(2) \X DistrictTexts

\* is_school_board_race on the probes
ProbesRejected ==
    \A q \in DisqualifyingProbes :
        AnyIn(Upper(q[1] \o <<" ">> \o q[2]), DisqualifyingKeywords)
            => ~is_school_board_race(q[1], q[2])

\* C8: is_school_board_race rejects every office/district pair whose combined
\* text contains a disqualifying keyword, whatever other keywords it contains
\* and whether or not it resolves; so no emitted row comes from such a race
\* of a file of the repository.
C8_DisqualifiedNeverEmitted ==
    /\ ProbesRejected
    /\ \A i \in 1..Len(EmittedRows) :
          \A u \in DOMAIN source :
              \A q \in DisqualifiedRaces[source[u]] :
                  EmittedRows[i].office # OfficeText(q[1], q[2])

\* the file with the bond question was read and gave a row, for the board race
C8_Witness ==
    /\ pc = "done"
    /\ \E u \in DOMAIN source : DisqualifiedRaces[source[u]] # {}
    /\ \E i \in 1..Len(staging_file[1]) : staging_file[1][i].candidate = <<"A","n","n"," ","L","e","e">>

\* the (identifier, year) pair of a log entry
EntryPair(e) == <<e.ctds, e.year>>

\* the staged rows of one pair
RowsOfPair(rows, q) == {k \in 1..Len(rows) : RowPair(rows[k]) = q}

RECURSIVE CandidateCount(_)
\* the sum of the candidate counts of a log
CandidateCount(log) ==
    IF log = <<>> THEN 0 ELSE Head(log).n_candidates + CandidateCount(Tail(log))

\* C13: at the end of a run the match log holds exactly one entry for every
\* filled (identifier, year) pair and none for any other pair; the candidate
\* count of each entry is the number of staged rows of its pair, and the
\* counts add up to the number of staged rows.
C13_LogMatchesStagedRows ==
    pc = "done" =>
        /\ \A q \in filled_pairs :
              Cardinality({n \in 1..Len(match_log[1]) : EntryPair(match_log[1][n]) = q}) = 1
        /\ \A n \in 1..Len(match_log[1]) :
              /\ EntryPair(match_log[1][n]) \in filled_pairs
              /\ match_log[1][n].n_candidates =
                     Cardinality(RowsOfPair(staging_file[1], EntryPair(match_log[1][n])))
        /\ CandidateCount(match_log[1]) = Len(staging_file[1])

\* a run that filled two pairs, one with one candidate and one with two
C13_Witness ==
    /\ pc = "done"
    /\ Cardinality(filled_pairs) = 2
    /\ {match_log[1][n].n_candidates : n \in 1..Len(match_log[1])} = {1, 2}
    /\ Len(staging_file[1]) = 3

\* the keys of the plan the loop has dealt with
ProcessedKeys == DOMAIN gaps_by_county_year \ {todo[n] : n \in 1..Len(todo)}

\* the file of a key cannot be retrieved, or its header matches no layout
NoData(k) ==
    \/ get_county_url(k[2], k[1]) \notin DOMAIN source
    \/ LayoutOf(SourceFiles[source[get_county_url(k[2], k[1])]].fields) = "unknown"

\* the rows, of those emitted so far, that come from the file of key k
RowsOfKey(k) ==
    SelectSeq(EmittedRows,
              LAMBDA r : r.county = CountyDisplay(k[1]) /\ IntFloat(r.year).val = k[2])

\* the log entries of key k
EntriesOfKey(k) ==
    SelectSeq(IF pc = "done" THEN match_log[1] ELSE match_details,
              LAMBDA e : e.county = CountyDisplay(k[1]) /\ e.year = k[2])

\* the identifiers the file of key k fills on its own
FilledFrom(k) ==
    Materialized(ResultOf(source[get_county_url(k[2], k[1])], CountyDisplay(k[1])),
                 gaps_by_county_year[k], k[2], existing_pairs)

\* the rows and the entries of key k are those of its file alone
OwnResult(k) ==
    /\ RowsOfKey(k) =
              RowsFor(FilledFrom(k),
                      DisplayPicks({FilledFrom(k)[n] : n \in 1..Len(FilledFrom(k))}),
                      ResultOf(source[get_county_url(k[2], k[1])], CountyDisplay(k[1])),
                      k[2], CountyDisplay(k[1]), ccd_districts)
    /\ EntriesOfKey(k) =
          DetailsFor(FilledFrom(k),
                     ResultOf(source[get_county_url(k[2], k[1])], CountyDisplay(k[1])),
                     k[2], CountyDisplay(k[1]), ccd_districts)

\* C14: a (county, year) key whose source cannot be retrieved, or whose header
\* matches no known schema, contributes no staged row and no log entry and
\* does not end the run; every other key has the rows and the entry its own
\* file gives.
C14_FailureIsolation ==
    /\ \A k \in ProcessedKeys :
          IF NoData(k) THEN RowsOfKey(k) = <<>> /\ EntriesOfKey(k) = <<>>
          ELSE OwnResult(k)
    /\ (pc = "crashed" /\ todo # <<>>) => ~NoData(Head(todo))

\* the Apache file has no known header and the Yavapai file, read after it,
\* gave its rows
C14_Witness ==
    /\ pc = "done"
    /\ \E k \in ProcessedKeys :
          /\ get_county_url(k[2], k[1]) \in DOMAIN source
          /\ NoData(k)
          /\ \E o \in ProcessedKeys : GapKeyLess(k, o) /\ RowsOfKey(o) # <<>>

\* the authoritative table or the cross-reference directory cannot be opened
InputsMissing == ~available.master \/ ~available.ccd

\* nothing was processed and nothing was written
NothingDone ==
    /\ gaps_by_county_year = <<>> /\ todo = <<>>
    /\ new_rows = <<>> /\ filled_pairs = {} /\ match_details = <<>>
    /\ staging_file = <<>> /\ match_log = <<>>

\* C16: if the authoritative table or the cross-reference directory is
\* unavailable the run fails before any processing begins: no key is
\* executed and neither the staging output nor the match log is written; no
\* other error condition aborts the whole run.
C16_OnlyMissingInputsAbort ==
    /\ InputsMissing => (pc \in {"start", "crashed"} /\ NothingDone)
    /\ pc = "crashed" => InputsMissing

\* the identifiers the table knows: those of its rows that name one
KnownIds(table) ==
    {RowPair(table[i])[1] : i \in {j \in 1..Len(table) : table[j].ctds_id # <<>>}}

\* the counties the rows of identifier c name
CountiesOf(table, c) ==
    {table[i].county : i \in {j \in 1..Len(table) :
        table[j].ctds_id # <<>> /\ RowPair(table[j])[1] = c /\ table[j].county # <<>>}}

\* the keys of the plan for year y whose missing set has identifier c
KeysWith(c, y) ==
    {k \in DOMAIN gaps_by_county_year : k[2] = y /\ c \in gaps_by_county_year[k]}

\* Plan has been taken and no key of its plan yet
AfterPlan == pc = "planned" /\ Len(todo) = Cardinality(DOMAIN gaps_by_county_year)

\* C17 as stated: after Plan, for every identifier known in the table and
\* every election year, the identifier is in the missing set of the key of
\* its county and the year exactly if the pair is not filled.
C17_PlanOfKnownIds ==
    AfterPlan =>
        LET filled == TablePairs(master)
        IN  \A c \in KnownIds(master) : \A i \in 1..Len(ElectionYears) :
                KeysWith(c, ElectionYears[i]) # {} <=> <<c, ElectionYears[i]>> \notin filled

\* the county of identifier c: the one its last row with a county names; no
\* county if no row of it names one
LastCountyOf(table, c) ==
    LET named == {j \in 1..Len(table) :
                    table[j].ctds_id # <<>> /\ RowPair(table[j])[1] = c
                    /\ table[j].county # <<>>}
    IN  {table[j].county : j \in {i \in named : \A h \in named : h <= i}}

\* C17 amended: after Plan, for every identifier the table knows with a
\* county and every election year, the identifier is in the missing set of
\* the key (county of the identifier, year), and of no other key, exactly if
\* the pair is not filled; no key has an empty missing set, no filled pair
\* is planned, and an identifier the table lists without a county is in no
\* missing set.
C17_PlanOfIdsWithCounty ==
    AfterPlan =>
        LET filled == TablePairs(master)
            known  == KnownIds(master)
            keysOf == [c \in known |-> {CountyLower(county) : county \in LastCountyOf(master, c)}]
        IN  /\ \A c \in known : \A i \in 1..Len(ElectionYears) :
                  KeysWith(c, ElectionYears[i]) =
                      IF <<c, ElectionYears[i]>> \in filled THEN {}
                      ELSE {<<county_lower, ElectionYears[i]>> : county_lower \in keysOf[c]}
            /\ \A k \in DOMAIN gaps_by_county_year :
                  /\ gaps_by_county_year[k] # {}
                  /\ gaps_by_county_year[k] \subseteq known
                  /\ k[2] \in {ElectionYears[i] : i \in 1..Len(ElectionYears)}

\* a plan with two keys of one county, and a table with a filled pair
C17_Witness ==
    /\ AfterPlan
    /\ Cardinality(DOMAIN gaps_by_county_year) = 2
    /\ \E k \in DOMAIN gaps_by_county_year : k[1] = <<"y","a","v","a","p","a","i">> /\ k[2] = 2018
    /\ \E k \in DOMAIN gaps_by_county_year : k[1] = <<"y","a","v","a","p","a","i">> /\ k[2] = 2016
    /\ <<4470, 2014>> \in TablePairs(master)

\* the loop is about to take a key whose file can be retrieved
FileAtHand ==
    /\ pc = "planned" /\ todo # <<>>
    /\ get_county_url(Head(todo)[2], Head(todo)[1]) \in DOMAIN source

\* what the file of the key at hand gives
ResultAtHand ==
    ResultOf(source[get_county_url(Head(todo)[2], Head(todo)[1])],
             CountyDisplay(Head(todo)[1]))

\* what becomes of candidate j of the key at hand
OutcomeAtHand(j) ==
    CandidateOutcome(ResultAtHand, gaps_by_county_year[Head(todo)], Head(todo)[2],
                     existing_pairs, j)

\* C18: in Execute every candidate aggregate of a key is accumulated under an
\* identifier of the key's missing set, discarded because its pair is
\* already filled, or recorded as unmatched; an aggregate that fails to
\* resolve is recorded as unmatched and none is dropped without a record.
C18_ThreeOutcomes ==
    FileAtHand =>
        \A j \in 1..Len(ResultAtHand.candidates) :
            /\ OutcomeAtHand(j) \in {"matched", "skipped", "unmatched"}
            /\ ResultAtHand.ctds[j] = <<>> => OutcomeAtHand(j) = "unmatched"

\* the names the table has for identifier c
ObservedNames(table, c) ==
    {table[i].school_district : i \in {j \in 1..Len(table) :
        table[j].ctds_id # <<>> /\ RowPair(table[j])[1] = c}} \ {<<>>}

\* the name the directory has for identifier c, the empty text if it has none
DirectoryName(c) ==
    LET at == {i \in 1..Len(CcdDirectory) :
                  /\ CcdDirectory[i].FIPST = <<"0","4">> /\ CcdDirectory[i].LEA_TYPE = <<"1">>
                  /\ CcdDirectory[i].ST_LEAID = <<"A","Z","-">> \o Str(c)}
    IN  IF at = {} THEN <<>> ELSE CcdDirectory[CHOOSE i \in at : TRUE].LEA_NAME

\* r carries a longest observed name of its identifier, or the directory's
\* name if the table has no name for it
HasBestName(r) ==
    IF ObservedNames(master, RowPair(r)[1]) # {}
    THEN /\ r.school_district \in ObservedNames(master, RowPair(r)[1])
         /\ \A n \in ObservedNames(master, RowPair(r)[1]) : Len(n) <= Len(r.school_district)
    ELSE r.school_district = DirectoryName(RowPair(r)[1])

\* C19: each staged row's display name is the longest of the names observed
\* for its identifier in the authoritative table, and the cross-reference
\* directory's name when no observed name is available for the identifier.
C19_BestKnownName ==
    (pc \in {"planned", "done"} /\ TableAsAtStart) =>
        \A i \in 1..Len(EmittedRows) : HasBestName(EmittedRows[i])

\* the second run of main has ended its loop, on the table and the repository
\* of the first run, whose outputs are still in the two files
BothRunsAtHand ==
    /\ which_run = "second" /\ ~promoted
    /\ pc = "planned" /\ todo = <<>>
    /\ staging_file # <<>> /\ match_log # <<>>

\* C28: two runs of main on the same authoritative table, the same directory
\* and the same source files give staged rows with the same field values,
\* the display name chosen among names that tie for longest included, and
\* the same match-log entries.
C28_Deterministic ==
    BothRunsAtHand =>
        /\ new_rows = staging_file[1]
        /\ match_details = match_log[1]

\* the keys of the loop that appended rows or an entry for the pair q
WritersOf(q) ==
    {<<CountyLower(new_rows[i].county), q[2]>> :
        i \in {j \in 1..Len(new_rows) : RowPair(new_rows[j]) = q}}
    \cup {<<CountyLower(match_details[i].county), q[2]>> :
        i \in {j \in 1..Len(match_details) : EntryPair(match_details[j]) = q}}

\* C24: each (identifier, year) pair is in the missing set of at most one
\* key of the plan, whatever counties the rows of the identifier name, so
\* the keys write rows for disjoint sets of pairs and no pair is
\* materialized more than once in a run: it has one log entry, and its rows
\* and its entry were appended by the one key that has it.
C24_OneKeyPerPair ==
    pc \in {"planned", "done"} =>
        /\ \A k1, k2 \in DOMAIN gaps_by_county_year :
              (k1 # k2 /\ k1[2] = k2[2]) =>
                  gaps_by_county_year[k1] \cap gaps_by_county_year[k2] = {}
        /\ \A i, j \in 1..Len(match_details) :
              EntryPair(match_details[i]) = EntryPair(match_details[j]) => i = j
        /\ \A q \in filled_pairs :
              /\ Cardinality(WritersOf(q)) = 1
              /\ \A k \in WritersOf(q) :
                    k \in DOMAIN gaps_by_county_year /\ q[1] \in gaps_by_county_year[k]
        /\ \A i \in 1..Len(new_rows) : RowPair(new_rows[i]) \in filled_pairs

\* the rows of an identifier of the table name two counties, and a pair of
\* that identifier was materialized
C24_Witness ==
    /\ pc = "done"
    /\ \E q \in filled_pairs :
          /\ Cardinality(CountiesOf(master, q[1])) = 2
          /\ WritersOf(q) # {}

\* the repository has a file for key k
HasFile(k) == get_county_url(k[2], k[1]) \in DOMAIN source

\* what the file of key k gives
ResultOfKey(k) == ResultOf(source[get_county_url(k[2], k[1])], CountyDisplay(k[1]))

\* the iteration of key k raises
KeyRaises(k) == HasFile(k) /\ ResultOfKey(k).raised

\* the rows the iteration of key k appends, from what Load and Plan built and
\* the file of k alone
KeyRows(k) ==
    IF ~HasFile(k) THEN <<>>
    ELSE IF ResultOfKey(k).candidates = <<>> THEN <<>>
    ELSE RowsFor(FilledFrom(k),
                 DisplayPicks({FilledFrom(k)[n] : n \in 1..Len(FilledFrom(k))}),
                 ResultOfKey(k), k[2], CountyDisplay(k[1]), ccd_districts)

\* the log entries the iteration of key k appends
KeyEntries(k) ==
    IF ~HasFile(k) THEN <<>>
    ELSE IF ResultOfKey(k).candidates = <<>> THEN <<>>
    ELSE DetailsFor(FilledFrom(k), ResultOfKey(k), k[2], CountyDisplay(k[1]),
                    ccd_districts)

RECURSIVE RunIn(_)
\* the loop of main taking the keys in the order given: an exception ends it
\* and nothing is written
RunIn(order) ==
    IF order = <<>> THEN [raised |-> FALSE, rows |-> <<>>, entries |-> <<>>]
    ELSE LET before == RunIn(SubSeq(order, 1, Len(order) - 1))
             k      == order[Len(order)]
         IN  IF before.raised \/ KeyRaises(k)
             THEN [raised |-> TRUE, rows |-> <<>>, entries |-> <<>>]
             ELSE [raised  |-> FALSE,
                   rows    |-> before.rows \o KeyRows(k),
                   entries |-> before.entries \o KeyEntries(k)]

\* the elements of a list
ElementsOf(list) == {list[i] : i \in 1..Len(list)}

\* C25: the keys of the plan are independent and their order does not
\* matter: the staged rows and the log entries at the end of the run are,
\* as sets, those of the loop taken in any order of the keys (a run that an
\* exception ends is ended by it in every order), and the rows of a key
\* already taken are those its own file gives, whatever the other keys gave.
C25_OrderInsensitive ==
    /\ pc = "done" =>
          \A order \in ListsOf(DOMAIN gaps_by_county_year) :
              /\ ~RunIn(order).raised
              /\ ElementsOf(RunIn(order).rows) = ElementsOf(staging_file[1])
              /\ ElementsOf(RunIn(order).entries) = ElementsOf(match_log[1])
    /\ (pc = "crashed" /\ todo # <<>>) =>
          \A order \in ListsOf(DOMAIN gaps_by_county_year) : RunIn(order).raised
    /\ pc \in {"planned", "done"} =>
          \A k \in ProcessedKeys :
              RowsOfKey(k) = KeyRows(k) /\ EntriesOfKey(k) = KeyEntries(k)

\* two keys of the plan have both given rows, the second in the order of
\* the loop after the first
C25_Witness ==
    /\ pc = "done"
    /\ Cardinality(DOMAIN gaps_by_county_year) = 2
    /\ \A k \in DOMAIN gaps_by_county_year : KeyRows(k) # <<>>
    /\ Len(staging_file[1]) >= 2

\* the key of the loop that appended the row r
KeyOfRow(r) == <<CountyLower(r.county), RowPair(r)[2]>>

\* C26: the identifier of every staged row is in the missing set of the key
\* whose file gave the row, and the county of the row is the county the
\* table has for that identifier; no row is created for a district of
\* another county or for an identifier the table does not know, although
\* match_to_ctds does not look at the county.
C26_RowsOfOwnCounty ==
    (pc \in {"planned", "done"} /\ TableAsAtStart) =>
        \A i \in 1..Len(EmittedRows) :
            /\ KeyOfRow(EmittedRows[i]) \in DOMAIN gaps_by_county_year
            /\ RowPair(EmittedRows[i])[1] \in gaps_by_county_year[KeyOfRow(EmittedRows[i])]
            /\ RowPair(EmittedRows[i])[1] \in KnownIds(master)
            /\ EmittedRows[i].county = ctds_county[RowPair(EmittedRows[i])[1]]
            /\ EmittedRows[i].county \in CountiesOf(master, RowPair(EmittedRows[i])[1])

\* the Yavapai file of 2018 names a Concho race, of a district of Apache
\* county that lacks 2018 as well: the run ends with rows for Camp Verde
\* and none for Concho
C26_Witness ==
    /\ pc = "done" /\ TableAsAtStart
    /\ get_county_url(2018, <<"y","a","v","a","p","a","i">>) \in DOMAIN source
    /\ source[get_county_url(2018, <<"y","a","v","a","p","a","i">>)] = "mixed"
    /\ 4160 \in DOMAIN ctds_county
    /\ <<4160, 2018>> \notin existing_pairs
    /\ <<4470, 2018>> \in filled_pairs
    /\ <<4160, 2018>> \notin filled_pairs

\* the combination the audit of the table counts duplicates of
AuditKey(r) == <<r.year, r.county, r.school_district, r.candidate>>

\* C27: among the staged rows of one (identifier, year) pair no two have the
\* same candidate name, so the staged output has no duplicate (year, county,
\* school district, candidate) combination.
C27_NoDuplicateCandidates ==
    pc \in {"planned", "done"} =>
        \A i, j \in 1..Len(EmittedRows) :
            \/ i = j
            \/ /\ AuditKey(EmittedRows[i]) # AuditKey(EmittedRows[j])
               /\ \/ RowPair(EmittedRows[i]) # RowPair(EmittedRows[j])
                  \/ EmittedRows[i].candidate # EmittedRows[j].candidate

(***************************************************************************)
(* Properties of populate_winners                                          *)
(***************************************************************************)
\* the winner column of the rows in memory
WinnersOf(table) == [i \in 1..Len(table) |-> table[i].winner]

\* C23: for a district-year in which no row has a winner value and whose
\* number of seats N is known, populate_winners marks exactly the N real
\* candidates with the most votes YES (all of them if they are fewer than N)
\* and every other real candidate NO: min(N, number of real candidates) rows
\* are YES, every real candidate is YES or NO, and no NO has more votes than
\* a YES.
C23_TopNElected ==
    pw_pc = "filled" =>
        \A i \in 1..Len(pw_master) :
            (IsFullyMissing(pw_master, i)
                /\ DistrictYear(pw_master[i]) \in DOMAIN seats_lookup) =>
            LET real == RealOf(pw_master, i)
                yes  == {j \in real : pw_rows[j].winner = <<"Y","E","S">>}
                no   == {j \in real : pw_rows[j].winner = <<"N","O">>}
                N    == seats_lookup[DistrictYear(pw_master[i])]
            IN  /\ Cardinality(yes) = IF N < Cardinality(real) THEN N ELSE Cardinality(real)
                /\ yes \cup no = real
                /\ \A y \in yes, n \in no :
                       VotesKey(pw_master[y]) >= VotesKey(pw_master[n])

\* three real candidates without a winner, two seats: the two with 120 votes
\* are YES, the one with 85 is NO
C23_Witness ==
    /\ pw_pc = "filled" /\ pw_run = 1
    /\ pw_master = << WinnerRow(<<"2","0","1","8">>, <<"J","a","n","e"," ","D","o","e">>, <<"1","2","0",".","0">>, <<>>),
                      WinnerRow(<<"2","0","1","8">>, <<"J","o","h","n"," ","R","o","e">>, <<"8","5">>, <<>>),
                      WinnerRow(<<"2","0","1","8">>, <<"A","n","n"," ","L","e","e">>, <<"1","2","0">>, <<>>) >>
    /\ pw_summary = <<SummaryRow(<<"2","0","1","8">>, <<" ","2",".","0"," ">>), SummaryRow(<<"2","0","2","0">>, <<"1">>)>>
    /\ WinnersOf(pw_rows) = << <<"Y","E","S">>, <<"N","O">>, <<"Y","E","S">> >>

\* C29: populate_winners writes only the winner field of rows whose winner
\* was blank and whose candidate is a real candidate: the rows in memory
\* after the loop are the rows of the table but for such winners, the table
\* is written from them, and a second run leaves every row as it finds it.
C29_OnlyBlankRealWinners ==
    /\ pw_pc = "filled" =>
        /\ Len(pw_rows) = Len(pw_master)
        /\ \A i \in 1..Len(pw_master) :
            /\ [pw_rows[i] EXCEPT !.winner = pw_master[i].winner] = pw_master[i]
            /\ pw_rows[i].winner # pw_master[i].winner =>
                  /\ IsBlank(pw_master[i])
                  /\ is_real_candidate(pw_master[i].candidate)
                  /\ pw_rows[i].winner \in { <<"Y","E","S">>, <<"N","O">> }
        /\ pw_run = 2 => pw_rows = pw_master
    /\ pw_pc = "done" => pw_master = pw_rows

\* the second run on a table the first run filled: Jane Doe got NO beside a
\* winner, the write-in row stayed blank
C29_Witness ==
    /\ pw_pc = "filled" /\ pw_run = 2
    /\ pw_master = << WinnerRow(<<"2","0","1","8">>, <<"B","o","b"," ","R","a","y">>, <<>>, <<"Y","E","S">>),
                      WinnerRow(<<"2","0","1","8">>, <<"J","a","n","e"," ","D","o","e">>, <<"1","2","0",".","0">>, <<"N","O">>),
                      WinnerRow(<<"2","0","1","8">>, <<"W","r","i","t","e","-","I","n">>, <<"7">>, <<>>) >>
    /\ pw_rows = pw_master

(***************************************************************************)
(* Properties of fetch                                                     *)
(***************************************************************************)
\* the calls of urlopen, of the first `retries`, that give a text
Successes == {k \in 1..retries : network[k] # <<>>}

\* the waits before the calls 2..n: 2, 4, 8, ...
Backoff(n) == [k \in 1..(n - 1) |-> 2 ^ k]

\* what a call that has returned has done: it stopped at the first call that
\* gave a text and returned it, or made `retries` calls and returned None, and
\* slept 2^k seconds between the k-th call and the next and at no other time
FetchContract ==
    /\ calls <= retries
    /\ IF Successes # {}
       THEN LET first == CHOOSE k \in Successes : \A j \in Successes : k <= j
            IN  calls = first /\ fetched = network[first] /\ slept = Backoff(first)
       ELSE calls = retries /\ fetched = <<NoneVal>> /\ slept = Backoff(retries)

\* C30: fetch(url, retries) always terminates: it returns, after at most
\* `retries` attempts, having waited 2^(attempt+1) seconds only between a
\* failed attempt and the next one, with the text of the first successful
\* attempt, or with None when every attempt failed.
C30_FetchTerminates ==
    /\ <>(fetch_pc = "returned")
    /\ [](fetch_pc = "returned" => FetchContract)

\* two attempts fail, the third gives the page: fetch slept 2 and 4 seconds
C30_Witness ==
    /\ fetch_pc = "returned" /\ retries = 3 /\ calls = 3
    /\ slept = <<2, 4>>
    /\ fetched = << <<"c","o","u","n","t","y",",","p","r","e","c","i","n","c","t">> >>

=============================================================================
